---- MODULE Spec2Model ----
(***************************************************************************)
(* The in-memory spreadsheet store of backend/src/services/                *)
(* spreadsheetService.ts: the command parser (parseCommand), the column    *)
(* codec and the mutation engine (processUserMessage) with its three       *)
(* event logs, its getters and the GET handlers of                         *)
(* controllers/spreadsheetController.ts that answer from them. CodecSpec   *)
(* is the column codec on its own, ControllerSpec puts the POST /message   *)
(* handler in front of the store. WebSocketSpec is the useWebSocket hook   *)
(* of frontend/src/hooks/useWebSocket.ts with its module-level socket,     *)
(* SheetSpec the useSpreadsheet hook (hooks/useSpreadsheet.ts) with its    *)
(* request throttle and its retry timer. InputBoxSpec is the InputBox      *)
(* component with the store behind it, EditSpec the inline edit of a grid  *)
(* cell through Home.handleCellUpdate, IdleSpec the useIdleDetection hook  *)
(* as Home mounts it, and RefreshSpec the path from a broadcast of the     *)
(* server to the getState request of the page (FairRefreshSpec with the    *)
(* fairness of its timers, messages and responses).                        *)
(*                                                                         *)
(* Text is modelled as a sequence of one-character strings, so that trim,  *)
(* split(/\s+/), join(' '), toUpperCase, parseInt and the three regular     *)
(* expressions of parseCommand are computed character by character.        *)
(* Event ids, timestamps and the human-readable `message` of an event are  *)
(* not modelled: nothing in the store reads them.                          *)
(***************************************************************************)
EXTENDS Integers, Sequences, FiniteSets, TLC

VARIABLES
  userEvents,        \* SpreadsheetDataStore.userEvents
  actionEvents,      \* SpreadsheetDataStore.actionEvents
  stateEvents,       \* SpreadsheetDataStore.stateEvents
  spreadsheetState,  \* SpreadsheetDataStore.spreadsheetState
  io,                \* WebSocketService.io: TRUE once initialize() has run
  broadcast,         \* what the latest call emitted through io
  request,           \* the command of the latest processUserMessage call
  result,            \* what that call returned or threw
  response,          \* the `response` object the latest GET handler built, as
                     \* a holder of it reads it now
  now,               \* Date.now() in the browser, in ms
  globalSocket,      \* useWebSocket.ts globalSocket: 0 (null) or a socket
  connectionPromise, \* connectionPromise: 0 (null) or the promise made with a socket
  lastConnectionAttempt, \* lastConnectionAttempt
  sockets,           \* every socket io() has returned: state, owner, closure
  hooks,             \* per useWebSocket instance: isIdle prop, isConnected, connectionError
  received,          \* the latest update message a socket received, the isIdle
                     \* it met and whether it reached its handler
  loadedState,       \* useSpreadsheet spreadsheetState: the request it came from (0: default)
  loading,           \* useSpreadsheet loading
  loadError,         \* useSpreadsheet error
  sheetInitialized,  \* useSpreadsheet isInitialized
  isInitialLoad,     \* isInitialLoad.current
  lastRequestTime,   \* lastRequestTime.current
  requestTimeoutRef, \* requestTimeoutRef.current: 0 (null) or a timer
  timers,            \* every timer setTimeout has returned
  requests,          \* every apiService.getState() call made
  mounted,           \* whether the component using useSpreadsheet is mounted
  call,              \* the latest call of loadSpreadsheetState
  inputBox,          \* InputBox: its state (message, error) and the props of its
                     \* latest render
  sent,              \* the latest call of onMessageSent and what became of it
  lastEvent,         \* the latest event the InputBox or its parent handled
  cellUpdate,        \* the latest call of Home.handleCellUpdate
  idleDetection,     \* useIdleDetection: isIdle, timeoutRef.current, the effect
                     \* waiting to run, and what its latest step was and called
  updateTimeoutRef,  \* Home updateTimeoutRef.current: 0 (null) or when it is due
  lastUpdateTime,    \* Home lastUpdateTime.current
  inbox,             \* the update messages on their way to the page's socket
  refreshed          \* the number of commands the page was told of, and the
                     \* number applied before its latest getState request

backend == <<userEvents, actionEvents, stateEvents, spreadsheetState, io, broadcast,
             request, result, response>>
socketHook == <<globalSocket, connectionPromise, lastConnectionAttempt, sockets,
                hooks, received>>
sheetHook == <<loadedState, loading, loadError, sheetInitialized, isInitialLoad,
               lastRequestTime, requestTimeoutRef, timers, requests, mounted, call>>
homeRefresh == <<updateTimeoutRef, lastUpdateTime, inbox, refreshed>>
page == <<inputBox, sent, lastEvent, cellUpdate, idleDetection, homeRefresh>>
frontend == <<now, socketHook, sheetHook, page>>

vars == <<backend, frontend>>

----------------------------------------------------------------------------
(* Bounds of the model *)

\* number of processUserMessage calls explored
MaxCmds == 2
\* the mock grid of initializeMockData is 100 rows x 10 columns in the
\* source; the model fills MockRows x MockCols of it
MockRows == 2
MockCols == 2
\* the column codec is applied to every index 0..MaxIndex (701 is ZZ) and
\* to every string of 1..MaxLetters upper-case letters
MaxIndex == 701
MaxLetters == 2
\* the browser's clock starts at StartTime and advances TickMs at a time,
\* MaxTicks times
StartTime == 5000
TickMs == 1000
MaxTicks == 5
\* number of useWebSocket instances and of sockets they may create
MaxHooks == 2
MaxSockets == 2
\* number of getState requests one useSpreadsheet instance may issue
MaxRequests == 2
\* number of commands that reach the store behind an open page
MaxSubmits == 1
\* number of steps of DEBOUNCE_DELAY ms by which the clock of an open page
\* advances besides its steps of TickMs
MaxMoments == 2
\* the idleTime option of useIdleDetection, in ms (Home passes 30000)
IdleTime == 2000

(* Program constants *)
MAX_ROWS == 100
INITIAL_ROWS == 100
INITIAL_COLUMNS == 26
\* ms between connection attempts, between getState requests, and before
\* the retry of a rate-limited request
CONNECT_THROTTLE == 2000
REQUEST_THROTTLE == 1000
RETRY_DELAY == 5000
\* ms within which Home puts off the refresh an update asks for
DEBOUNCE_DELAY == 300

----------------------------------------------------------------------------
(* Characters and text *)

UpperAlphabet ==
  <<"A","B","C","D","E","F","G","H","I","J","K","L","M",
    "N","O","P","Q","R","S","T","U","V","W","X","Y","Z">>
LowerAlphabet ==
  <<"a","b","c","d","e","f","g","h","i","j","k","l","m",
    "n","o","p","q","r","s","t","u","v","w","x","y","z">>
DigitChars == <<"0","1","2","3","4","5","6","7","8","9">>
\* the whitespace of \s and of trim(): the commands of the model use the
\* space character only
Whitespace == {" "}

Elements(s) == {s[i] : i \in 1..Len(s)}
PositionIn(c, alphabet) == CHOOSE i \in 1..Len(alphabet) : alphabet[i] = c
UpperChars == Elements(UpperAlphabet)
LowerChars == Elements(LowerAlphabet)
Digits == Elements(DigitChars)
IsUpperChar(c) == c \in UpperChars
IsLowerChar(c) == c \in LowerChars
Min(a, b) == IF a < b THEN a ELSE b
Max(a, b) == IF a > b THEN a ELSE b

\* String.prototype.toUpperCase
toUpperCase(s) ==
  [i \in 1..Len(s) |->
     IF IsLowerChar(s[i]) THEN UpperAlphabet[PositionIn(s[i], LowerAlphabet)]
     ELSE s[i]]

\* String.prototype.charCodeAt for a letter A..Z (65..90)
charCodeAt(c) == 64 + PositionIn(c, UpperAlphabet)
\* the characters of the codes 91..95, which follow Z
AfterZ == <<"[", "\\", "]", "^", "_">>
\* String.fromCharCode for 65..95
fromCharCode(code) ==
  IF code <= 90 THEN UpperAlphabet[code - 64] ELSE AfterZ[code - 90]

RECURSIVE trimStart(_)
trimStart(s) ==
  IF s # <<>> /\ Head(s) \in Whitespace THEN trimStart(Tail(s)) ELSE s

RECURSIVE trimEnd(_)
trimEnd(s) ==
  IF s # <<>> /\ s[Len(s)] \in Whitespace
  THEN trimEnd(SubSeq(s, 1, Len(s) - 1)) ELSE s

\* String.prototype.trim
trim(s) == trimEnd(trimStart(s))

\* String.prototype.split(/\s+/): cut at every maximal run of whitespace
RECURSIVE splitFrom(_, _, _)
splitFrom(s, cur, acc) ==
  IF s = <<>> THEN Append(acc, cur)
  ELSE IF Head(s) \in Whitespace
       THEN splitFrom(trimStart(s), <<>>, Append(acc, cur))
       ELSE splitFrom(Tail(s), Append(cur, Head(s)), acc)
split(s) == splitFrom(s, <<>>, <<>>)

\* Array.prototype.join
RECURSIVE join(_, _)
join(parts, sep) ==
  IF parts = <<>> THEN <<>>
  ELSE IF Len(parts) = 1 THEN parts[1]
  ELSE parts[1] \o sep \o join(Tail(parts), sep)

\* Array.prototype.slice(from) with a 0-based start
slice(parts, from) == SubSeq(parts, from + 1, Len(parts))

\* the number of characters of s, from position pos on, that lie in
\* chars, up to the first that does not
RECURSIVE runLength(_, _, _)
runLength(s, pos, chars) ==
  IF pos <= Len(s) /\ s[pos] \in chars THEN 1 + runLength(s, pos + 1, chars) ELSE 0

\* parseInt of a string of decimal digits
RECURSIVE parseIntAcc(_, _)
parseIntAcc(digits, acc) ==
  IF digits = <<>> THEN acc
  ELSE parseIntAcc(Tail(digits), acc * 10 + (PositionIn(Head(digits), DigitChars) - 1))
parseInt(digits) == parseIntAcc(digits, 0)

\* the decimal text of a non-negative integer (template literal / String(n))
RECURSIVE numberToString(_)
numberToString(n) ==
  IF n < 10 THEN <<DigitChars[n + 1]>>
  ELSE numberToString(n \div 10) \o <<DigitChars[(n % 10) + 1]>>

----------------------------------------------------------------------------
(* Column codec *)

\* columnIndexToLetter: 0 -> A, 25 -> Z, 26 -> AA
RECURSIVE columnIndexToLetterLoop(_, _)
columnIndexToLetterLoop(index, res) ==
  IF index >= 0
  THEN columnIndexToLetterLoop((index \div 26) - 1,
                               <<fromCharCode(65 + (index % 26))>> \o res)
  ELSE res
columnIndexToLetter(index) == columnIndexToLetterLoop(index, <<>>)

\* letterToColumnIndex reading the letters as base-26 digits A = 0 .. Z = 25
RECURSIVE letterToColumnIndex_Base26Loop(_, _)
letterToColumnIndex_Base26Loop(letter, res) ==
  IF letter = <<>> THEN res
  ELSE letterToColumnIndex_Base26Loop(Tail(letter),
                                      res * 26 + (charCodeAt(Head(letter)) - 65))
letterToColumnIndex_Base26(letter) == letterToColumnIndex_Base26Loop(letter, 0)

\* letterToColumnIndex: A -> 0, Z -> 25, AA -> 26 (no validation, no ceiling)
RECURSIVE letterToColumnIndexLoop(_, _)
letterToColumnIndexLoop(letter, res) ==
  IF letter = <<>> THEN res
  ELSE letterToColumnIndexLoop(Tail(letter), res * 26 + (charCodeAt(Head(letter)) - 64))
letterToColumnIndex(letter) == letterToColumnIndexLoop(letter, 0) - 1

generateColumnHeaders(count) == [i \in 1..count |-> columnIndexToLetter(i - 1)]

\* SpreadsheetDataStore.parseColumn: the validating codec (-1 for a
\* non-letter or a column beyond ZZ). No method of the store calls it.
RECURSIVE parseColumnLoop(_, _)
parseColumnLoop(upperCol, res) ==
  IF upperCol = <<>> THEN res
  ELSE IF ~IsUpperChar(Head(upperCol)) THEN -1
  ELSE parseColumnLoop(Tail(upperCol), res * 26 + (charCodeAt(Head(upperCol)) - 64))
parseColumn(colStr) ==
  LET res == parseColumnLoop(toUpperCase(colStr), 0)
  IN  IF res = -1 THEN -1
      ELSE IF res > 702 THEN -1
      ELSE res - 1

----------------------------------------------------------------------------
(* Errors *)

\* new CustomError(message, statusCode); `detail` is the interpolated part
\* of the message, empty when the message is a literal
CustomError(message, detail, statusCode) ==
  [message |-> message, detail |-> detail, statusCode |-> statusCode]

Throw(error) == [threw |-> TRUE, error |-> error]
Return(value) == [threw |-> FALSE, value |-> value]

----------------------------------------------------------------------------
(* The regular expressions of parseCommand *)

\* A pattern is a sequence of parts, each a character class repeated min
\* times or more (one-or-more, zero-or-more) or exactly once. Adjacent
\* classes of the patterns below are disjoint, so the greedy match is the
\* only one. The result is whether the whole text matched and the text
\* matched by each part.
Part(chars, min, atMostOne) == [chars |-> chars, min |-> min, atMostOne |-> atMostOne]
NoMatch == [matched |-> FALSE, groups |-> <<>>]

RECURSIVE matchFrom(_, _, _, _)
matchPart(s, pos, pattern, groups, run) ==
  IF run < Head(pattern).min THEN NoMatch
  ELSE matchFrom(s, pos + run, Tail(pattern),
                 Append(groups, SubSeq(s, pos, pos + run - 1)))
matchFrom(s, pos, pattern, groups) ==
  IF pattern = <<>>
  THEN IF pos > Len(s) THEN [matched |-> TRUE, groups |-> groups] ELSE NoMatch
  ELSE matchPart(s, pos, pattern, groups,
                 IF Head(pattern).atMostOne
                 THEN Min(1, runLength(s, pos, Head(pattern).chars))
                 ELSE runLength(s, pos, Head(pattern).chars))
match(s, pattern) == matchFrom(s, 1, pattern, <<>>)

\* /^([A-Z]+)(\d+)-([A-Z]*\d+)$/ : groups 4 and 5 together are the
\* regular expression's third group
RangePattern ==
  <<Part(UpperChars, 1, FALSE), Part(Digits, 1, FALSE), Part({"-"}, 1, TRUE),
    Part(UpperChars, 0, FALSE), Part(Digits, 1, FALSE)>>
rangeMatch(token) == match(token, RangePattern)

\* /^([A-Z]*)(\d+)$/
EndPattern == <<Part(UpperChars, 0, FALSE), Part(Digits, 1, FALSE)>>
endMatch(endCell) == match(endCell, EndPattern)

\* /^([A-Z]+)(\d+)$/
CellPattern == <<Part(UpperChars, 1, FALSE), Part(Digits, 1, FALSE)>>
cellMatch(token) == match(token, CellPattern)

KwChange == <<"C","H","A","N","G","E">>
KwColumn == <<"C","O","L","U","M","N">>
KwHeader == <<"H","E","A","D","E","R">>
KwName == <<"N","A","M","E">>
KwTo == <<"T","O">>

\* the length of the first whitespace-separated word of s
RECURSIVE wordLength(_, _)
wordLength(s, pos) ==
  IF pos <= Len(s) /\ s[pos] \notin Whitespace THEN 1 + wordLength(s, pos + 1) ELSE 0

\* s without its first k words and the whitespace that follows each of
\* them (s has no leading whitespace)
RECURSIVE afterWords(_, _)
afterWords(s, k) ==
  IF k = 0 THEN s
  ELSE afterWords(trimStart(SubSeq(s, wordLength(s, 1) + 1, Len(s))), k - 1)

\* /^change\s+column\s+([A-Z]+)\s+(?:header\s+name\s+)?to\s+(.+)$/i on a
\* trimmed line, given its words: group 1 is the column, group 2 the rest
\* of the line after "to" and its whitespace
renameWords(line, words) ==
  LET head == /\ Len(words) >= 5
              /\ toUpperCase(words[1]) = KwChange
              /\ toUpperCase(words[2]) = KwColumn
              /\ words[3] # <<>>
              /\ \A i \in 1..Len(words[3]) : words[3][i] \in UpperChars \cup LowerChars
  IN  IF /\ head
         /\ Len(words) >= 7
         /\ toUpperCase(words[4]) = KwHeader
         /\ toUpperCase(words[5]) = KwName
         /\ toUpperCase(words[6]) = KwTo
      THEN [matched |-> TRUE, groups |-> <<words[3], afterWords(line, 6)>>]
      ELSE IF head /\ toUpperCase(words[4]) = KwTo
      THEN [matched |-> TRUE, groups |-> <<words[3], afterWords(line, 4)>>]
      ELSE NoMatch
renameMatch(line) == renameWords(line, split(line))

----------------------------------------------------------------------------
(* parseCommand *)

\* parseRename checking the column against the width the store was
\* constructed with instead of its current width
parseRename_InitialColumns(trimmedMessage, columnLetter, newName, colIndex, state) ==
  IF colIndex < 0 \/ colIndex >= INITIAL_COLUMNS
  THEN Throw(CustomError("Invalid column: ", columnLetter, 400))
  ELSE Return([type |-> "HEADER_RENAME",
               col |-> colIndex,
               value |-> newName,
               originalCommand |-> trimmedMessage])

\* the HEADER_RENAME result, or the error for a column outside the grid
parseRename(trimmedMessage, columnLetter, newName, colIndex, state) ==
  IF colIndex < 0 \/ colIndex >= state.columns
  THEN Throw(CustomError("Invalid column: ", columnLetter, 400))
  ELSE Return([type |-> "HEADER_RENAME",
               col |-> colIndex,
               value |-> newName,
               originalCommand |-> trimmedMessage])

\* parseRange without the default of the end column: an end token without
\* letters gives the index of the empty string
parseRange_NoDefault(trimmedMessage, value, range, end) ==
  IF ~end.matched
  THEN Throw(CustomError("Invalid range format", <<>>, 400))
  ELSE Return([type |-> "RANGE",
               startCell |-> range.groups[1] \o range.groups[2],
               endCell |-> range.groups[4] \o range.groups[5],
               startCol |-> letterToColumnIndex(range.groups[1]),
               startRow |-> parseInt(range.groups[2]),
               endCol |-> letterToColumnIndex(end.groups[1]),
               endRow |-> parseInt(end.groups[2]),
               value |-> value,
               originalCommand |-> trimmedMessage])

\* the RANGE result: no check of the rows or of the order of the corners
parseRange(trimmedMessage, value, range, end) ==
  IF ~end.matched
  THEN Throw(CustomError("Invalid range format", <<>>, 400))
  ELSE Return([type |-> "RANGE",
               startCell |-> range.groups[1] \o range.groups[2],
               endCell |-> range.groups[4] \o range.groups[5],
               startCol |-> letterToColumnIndex(range.groups[1]),
               startRow |-> parseInt(range.groups[2]),
               endCol |-> IF end.groups[1] # <<>>
                          THEN letterToColumnIndex(end.groups[1])
                          ELSE letterToColumnIndex(range.groups[1]),
               endRow |-> parseInt(end.groups[2]),
               value |-> value,
               originalCommand |-> trimmedMessage])

\* parseCell without the check of the row number
parseCell_NoRowCheck(trimmedMessage, cellOrRange, value, cell) ==
  IF ~cell.matched
  THEN Throw(CustomError("Invalid cell format. Use: A1, B5, etc.", <<>>, 400))
  ELSE Return([type |-> "SINGLE",
               cell |-> cellOrRange,
               col |-> letterToColumnIndex(cell.groups[1]),
               row |-> parseInt(cell.groups[2]),
               value |-> value,
               originalCommand |-> trimmedMessage])

\* the SINGLE result, or the error for a first token that is no cell
\* address or a row below 1
parseCell(trimmedMessage, cellOrRange, value, cell) ==
  IF ~cell.matched
  THEN Throw(CustomError("Invalid cell format. Use: A1, B5, etc.", <<>>, 400))
  ELSE IF parseInt(cell.groups[2]) < 1
  THEN Throw(CustomError("Row number must be at least 1", <<>>, 400))
  ELSE Return([type |-> "SINGLE",
               cell |-> cellOrRange,
               col |-> letterToColumnIndex(cell.groups[1]),
               row |-> parseInt(cell.groups[2]),
               value |-> value,
               originalCommand |-> trimmedMessage])

\* range first, then single cell
parseAddress(trimmedMessage, cellOrRange, value, range) ==
  IF range.matched
  THEN parseRange(trimmedMessage, value, range,
                  endMatch(range.groups[4] \o range.groups[5]))
  ELSE parseCell(trimmedMessage, cellOrRange, value, cellMatch(cellOrRange))

\* the body of parseCommand after the split
parseParts(trimmedMessage, parts, rename, state) ==
  IF Len(parts) < 2
  THEN Throw(CustomError("Invalid command format. Use: <cell> <value> or <range> <value>",
                         <<>>, 400))
  ELSE IF rename.matched
  THEN parseRename(trimmedMessage, toUpperCase(rename.groups[1]), trim(rename.groups[2]),
                   letterToColumnIndex(toUpperCase(rename.groups[1])), state)
  ELSE parseAddress(trimmedMessage, toUpperCase(parts[1]),
                    join(slice(parts, 1), <<" ">>),
                    rangeMatch(toUpperCase(parts[1])))

parseTrimmed(trimmedMessage, state) ==
  parseParts(trimmedMessage, split(trimmedMessage), renameMatch(trimmedMessage), state)

\* SpreadsheetDataStore.parseCommand(message), reading this.spreadsheetState
parseCommand(message, state) == parseTrimmed(trim(message), state)

----------------------------------------------------------------------------
(* The grid *)

DefaultFormat ==
  [bold |-> FALSE, italic |-> FALSE, color |-> "#000000", backgroundColor |-> "#ffffff"]

SpreadsheetCell(row, col, value) ==
  [row |-> row, col |-> col, value |-> value, format |-> DefaultFormat]

\* cells.findIndex(cell => cell.row === row && cell.col === col): 0-based, -1 if none
RECURSIVE findIndexFrom(_, _, _, _)
findIndexFrom(cells, row, col, i) ==
  IF i > Len(cells) THEN -1
  ELSE IF cells[i].row = row /\ cells[i].col = col THEN i - 1
  ELSE findIndexFrom(cells, row, col, i + 1)
findIndex(cells, row, col) == findIndexFrom(cells, row, col, 1)

\* the auto-expansion of rows (capped at MAX_ROWS) and of columns (headers
\* regenerated) before a write to 1-based row `row`, 0-based column `col`
expandRows(state, newRows) ==
  IF newRows > state.rows THEN [state EXCEPT !.rows = newRows] ELSE state
\* expandColumns that forgets to regenerate the headers
expandColumns_KeepsHeaders(state, newColumns) ==
  IF newColumns > state.columns
  THEN [state EXCEPT !.columns = newColumns]
  ELSE state
expandColumns(state, newColumns) ==
  IF newColumns > state.columns
  THEN [state EXCEPT !.columns = newColumns,
                     !.headers = generateColumnHeaders(newColumns)]
  ELSE state
\* autoExpand without the Math.min(..., MAX_ROWS) cap
autoExpand_NoRowCap(state, row, col) ==
  expandColumns(expandRows(state, Max(state.rows, row)),
                Max(state.columns, col + 1))
\* autoExpand that adds the columns a write needs beyond the initial grid
\* to the current count, on every write
autoExpand_Additive(state, row, col) ==
  expandColumns(expandRows(state, Min(Max(state.rows, row), MAX_ROWS)),
                IF col + 1 > INITIAL_COLUMNS
                THEN state.columns + (col + 1 - INITIAL_COLUMNS)
                ELSE state.columns)
\* autoExpand that sizes the columns for the latest write alone
autoExpand_ForLatestWrite(state, row, col) ==
  [expandRows(state, Min(Max(state.rows, row), MAX_ROWS))
     EXCEPT !.columns = Max(INITIAL_COLUMNS, col + 1),
            !.headers = generateColumnHeaders(Max(INITIAL_COLUMNS, col + 1))]
autoExpand(state, row, col) ==
  expandColumns(expandRows(state, Min(Max(state.rows, row), MAX_ROWS)),
                Max(state.columns, col + 1))

\* replace the cell found at existingCellIndex, or push cellData
\* upsertAt that pushes whether or not the coordinate has a cell
upsertAt_AlwaysPush(cells, cellData, existingCellIndex) ==
  Append(cells, cellData)
upsertAt(cells, cellData, existingCellIndex) ==
  IF existingCellIndex >= 0
  THEN [cells EXCEPT ![existingCellIndex + 1] = cellData]
  ELSE Append(cells, cellData)
upsertCell(cells, cellData) ==
  upsertAt(cells, cellData, findIndex(cells, cellData.row, cellData.col))

writeCell(state, cellData) ==
  [state EXCEPT !.cells = upsertCell(state.cells, cellData)]

ActionEvent(action, row, col, data) ==
  [action |-> action, target |-> [row |-> row, col |-> col], data |-> data]

StateEvent(type, row, col, value) ==
  [type |-> type, cellData |-> [row |-> row, col |-> col, value |-> value]]

\* what a branch of processUserMessage hands to the code after the branches
Applied(state, actionEvent, stateEvent) ==
  Return([state |-> state, actionEvent |-> actionEvent, stateEvent |-> stateEvent])

\* the SINGLE branch without the conversion of the row to 0-based
singleUpdate_RowNotShifted(state, parsedCommand) ==
  Applied(writeCell(autoExpand(state, parsedCommand.row, parsedCommand.col),
                    SpreadsheetCell(parsedCommand.row, parsedCommand.col,
                                    parsedCommand.value)),
          ActionEvent("UPDATE_CELL", parsedCommand.row, parsedCommand.col,
                      [value |-> parsedCommand.value]),
          StateEvent("CELL_UPDATE", parsedCommand.row, parsedCommand.col,
                     parsedCommand.value))

\* the SINGLE branch
singleUpdate(state, parsedCommand) ==
  Applied(writeCell(autoExpand(state, parsedCommand.row, parsedCommand.col),
                    SpreadsheetCell(parsedCommand.row - 1, parsedCommand.col,
                                    parsedCommand.value)),
          ActionEvent("UPDATE_CELL", parsedCommand.row - 1, parsedCommand.col,
                      [value |-> parsedCommand.value]),
          StateEvent("CELL_UPDATE", parsedCommand.row - 1, parsedCommand.col,
                     parsedCommand.value))

\* An operator's argument is evaluated when it is first read: reading the
\* accumulator of a loop at every step keeps the evaluation of a long
\* loop flat.
Evaluated(value) == value = value

\* the two nested for loops of the RANGE branch; acc is the grid and the
\* cellsUpdated list so far
RECURSIVE rangeLoop(_, _, _, _)
rangeLoop(acc, row, col, parsedCommand) ==
  IF Evaluated(acc) /\ row > parsedCommand.endRow THEN acc
  ELSE IF col > parsedCommand.endCol
  THEN rangeLoop(acc, row + 1, parsedCommand.startCol, parsedCommand)
  ELSE rangeLoop([state |-> writeCell(autoExpand(acc.state, row, col),
                                      SpreadsheetCell(row - 1, col, parsedCommand.value)),
                  cellsUpdated |-> Append(acc.cellsUpdated,
                                          SpreadsheetCell(row - 1, col, parsedCommand.value))],
                 row, col + 1, parsedCommand)

\* the events of the RANGE branch
rangeEvents(parsedCommand, done) ==
  Applied(done.state,
          ActionEvent("UPDATE_CELL", parsedCommand.startRow, parsedCommand.startCol,
                      [value |-> parsedCommand.value,
                       range |-> parsedCommand.startCell \o <<"-">> \o parsedCommand.endCell,
                       cellsUpdated |-> Len(done.cellsUpdated)]),
          StateEvent("CELL_UPDATE", parsedCommand.startRow, parsedCommand.startCol,
                     parsedCommand.value))

\* the RANGE branch with the loops left out: only the start cell is written
rangeUpdate_FirstCellOnly(state, parsedCommand) ==
  rangeEvents(parsedCommand,
              [state |-> writeCell(autoExpand(state, parsedCommand.startRow,
                                              parsedCommand.startCol),
                                   SpreadsheetCell(parsedCommand.startRow - 1,
                                                   parsedCommand.startCol,
                                                   parsedCommand.value)),
               cellsUpdated |-> <<SpreadsheetCell(parsedCommand.startRow - 1,
                                                  parsedCommand.startCol,
                                                  parsedCommand.value)>>])

\* the RANGE branch
rangeUpdate(state, parsedCommand) ==
  rangeEvents(parsedCommand,
              rangeLoop([state |-> state, cellsUpdated |-> <<>>],
                        parsedCommand.startRow, parsedCommand.startCol, parsedCommand))

\* the HEADER_RENAME branch writing the header one place to the right
headerRename_NextColumn(state, parsedCommand) ==
  IF parsedCommand.col < 0 \/ parsedCommand.col >= state.columns
  THEN Throw(CustomError("Invalid column index for header rename: ",
                         numberToString(parsedCommand.col), 400))
  ELSE Applied([state EXCEPT !.headers[parsedCommand.col + 2] = parsedCommand.value],
               ActionEvent("HEADER_RENAME", -1, parsedCommand.col,
                           [oldHeader |-> state.headers[parsedCommand.col + 1],
                            newHeader |-> parsedCommand.value]),
               StateEvent("HEADER_RENAME", -1, parsedCommand.col, parsedCommand.value))

\* the HEADER_RENAME branch
headerRename(state, parsedCommand) ==
  IF parsedCommand.col < 0 \/ parsedCommand.col >= state.columns
  THEN Throw(CustomError("Invalid column index for header rename: ",
                         numberToString(parsedCommand.col), 400))
  ELSE Applied([state EXCEPT !.headers[parsedCommand.col + 1] = parsedCommand.value],
               ActionEvent("HEADER_RENAME", -1, parsedCommand.col,
                           [oldHeader |-> state.headers[parsedCommand.col + 1],
                            newHeader |-> parsedCommand.value]),
               StateEvent("HEADER_RENAME", -1, parsedCommand.col, parsedCommand.value))

\* the final else branch
generalMessage(state, parsedCommand) ==
  Applied(state,
          ActionEvent("GENERAL_MESSAGE", -1, -1, [message |-> parsedCommand.value]),
          StateEvent("CELL_UPDATE", -1, -1, parsedCommand.value))

\* the if / else-if chain over parsedCommand.type
applyCommand(state, parsedCommand) ==
  IF parsedCommand.type = "SINGLE" THEN singleUpdate(state, parsedCommand)
  ELSE IF parsedCommand.type = "RANGE" THEN rangeUpdate(state, parsedCommand)
  ELSE IF parsedCommand.type = "HEADER_RENAME" THEN headerRename(state, parsedCommand)
  ELSE generalMessage(state, parsedCommand)

----------------------------------------------------------------------------
(* WebSocketService *)

isInitialized(socketServer) == socketServer

\* the three broadcasts that follow a successful command: each returns
\* without emitting when io is null
broadcastUpdates(socketServer, userEvent, actionEvent, stateEvent, actions, states) ==
  IF ~isInitialized(socketServer) THEN <<>>
  ELSE << [type |-> "spreadsheet_update", userEvent |-> userEvent,
           actionEvent |-> actionEvent, stateEvent |-> stateEvent],
          [type |-> "action_events_update", actionEvents |-> actions],
          [type |-> "state_events_update", stateEvents |-> states] >>

----------------------------------------------------------------------------
(* processUserMessage *)

UserEvent(message) ==
  [message |-> message, userId |-> "anonymous", sessionId |-> "default"]

\* the catch block: the caught error is logged and a new one is thrown
catchError(error) ==
  [threw |-> TRUE,
   error |-> CustomError("Failed to process user message", <<>>, 500),
   logged |-> error]

\* failedStore of a store that records the rejected command in its
\* action log as well
failedStore_LogsFailure(store, userEvent) ==
  [store EXCEPT !.userEvents = Append(@, userEvent),
                !.actionEvents = Append(@, ActionEvent("GENERAL_MESSAGE", -1, -1,
                                                       [message |-> userEvent.message]))]

\* failedStore of a store that records the user event only once the
\* command has been parsed
failedStore_DropsUserEvent(store, userEvent) == store

\* the store when the call throws: the user event was pushed before parsing
failedStore(store, userEvent) ==
  [store EXCEPT !.userEvents = Append(@, userEvent)]

\* the store when the call returns
appliedStore(store, userEvent, applied) ==
  [store EXCEPT !.userEvents = Append(@, userEvent),
                !.spreadsheetState = applied.state,
                !.actionEvents = Append(@, applied.actionEvent),
                !.stateEvents = Append(@, applied.stateEvent)]

failed(store, userEvent, error) ==
  [store |-> failedStore(store, userEvent), emitted |-> <<>>,
   outcome |-> catchError(error)]

succeeded(after, socketServer, userEvent, parsedCommand, applied) ==
  [store |-> after,
   emitted |-> broadcastUpdates(socketServer, userEvent, applied.actionEvent,
                                applied.stateEvent, after.actionEvents, after.stateEvents),
   outcome |-> Return([userEvent |-> userEvent,
                       actionEvent |-> applied.actionEvent,
                       stateEvent |-> applied.stateEvent,
                       parsedCommand |-> parsedCommand])]

\* afterApply of a store that treats a missing broadcaster as a failure
afterApply_NeedsBroadcaster(store, socketServer, userEvent, parsedCommand, applied) ==
  IF applied.threw THEN failed(store, userEvent, applied.error)
  ELSE IF ~isInitialized(socketServer)
  THEN failed(store, userEvent, CustomError("WebSocket service not initialized", <<>>, 500))
  ELSE succeeded(appliedStore(store, userEvent, applied.value), socketServer,
                 userEvent, parsedCommand, applied.value)

afterApply(store, socketServer, userEvent, parsedCommand, applied) ==
  IF applied.threw THEN failed(store, userEvent, applied.error)
  ELSE succeeded(appliedStore(store, userEvent, applied.value), socketServer,
                 userEvent, parsedCommand, applied.value)

afterParse(store, socketServer, userEvent, parsed) ==
  IF parsed.threw THEN failed(store, userEvent, parsed.error)
  ELSE afterApply(store, socketServer, userEvent, parsed.value,
                  applyCommand(store.spreadsheetState, parsed.value))

\* SpreadsheetDataStore.processUserMessage(message): the store afterwards,
\* what was emitted, and what the call returned or threw
processUserMessage(store, socketServer, message) ==
  afterParse(store, socketServer, UserEvent(message),
             parseCommand(message, store.spreadsheetState))

----------------------------------------------------------------------------
(* The getters and the GET handlers *)

\* Array.prototype.reverse on a copy of the array
reverse(events) == [i \in 1..Len(events) |-> events[Len(events) + 1 - i]]

\* getActionEvents without the reverse()
getActionEvents_OldestFirst(store) == store.actionEvents

\* SpreadsheetDataStore.getActionEvents: [...this.actionEvents].reverse()
getActionEvents(store) == reverse(store.actionEvents)

\* getStateEvents answering from the log as it was before its latest push
getStateEvents_BeforeLatestPush(store) ==
  reverse(SubSeq(store.stateEvents, 1, Len(store.stateEvents) - 1))

\* SpreadsheetDataStore.getStateEvents: [...this.stateEvents].reverse()
getStateEvents(store) == reverse(store.stateEvents)

\* SpreadsheetDataStore.getSpreadsheetState: { ...this.spreadsheetState }.
\* The spread copies rows and columns and copies the references to the
\* cells array and to the headers array, so the object returned reads
\* those two arrays of the store; `shared` names the fields that are
\* references to an array the store still uses.
getSpreadsheetState(store) ==
  [cells |-> store.spreadsheetState.cells,
   rows |-> store.spreadsheetState.rows,
   columns |-> store.spreadsheetState.columns,
   headers |-> store.spreadsheetState.headers,
   shared |-> {"cells", "headers"}]

\* what a holder of the object `state` reads after the store went from
\* `before` to `after`: cells is pushed to and assigned into but never
\* replaced, so the reference stays good; headers is assigned into by a
\* rename and replaced by a new array when the columns grow
readThrough(state, before, after) ==
  [state EXCEPT
     !.cells = IF "cells" \in state.shared THEN after.cells ELSE @,
     !.headers = IF "headers" \in state.shared /\ after.columns = before.columns
                 THEN after.headers ELSE @,
     !.shared = IF after.columns = before.columns THEN @ ELSE @ \ {"headers"}]

\* getHealthStatus: the dataCounts it reports
getHealthStatus(store) ==
  [dataCounts |-> [userEvents |-> Len(store.userEvents),
                   actionEvents |-> Len(store.actionEvents),
                   stateEvents |-> Len(store.stateEvents),
                   cells |-> Len(store.spreadsheetState.cells)]]

NoResponse == [kind |-> "none"]

\* getActions of the controller: { success, actions, count }
actionsResponse(actions) ==
  [kind |-> "actions", actions |-> actions, count |-> Len(actions)]

\* getState of the controller: { success, state, stateEvents, count }; both
\* getters run to their end inside the array literal given to Promise.all
stateResponse(state, events) ==
  [kind |-> "state", state |-> state, stateEvents |-> events, count |-> Len(events)]

\* the response object after a call of processUserMessage
afterCall(held, before, after) ==
  IF held.kind = "state"
  THEN [held EXCEPT !.state = readThrough(@, before, after)]
  ELSE held

----------------------------------------------------------------------------
(* The commands sent to the store *)

\* A command is its first token (a cell address, a range address or none),
\* the words that follow, the whitespace between words and the whitespace
\* around the line; Text renders it as the message the store receives.
Command(kind, letters, n, endLetters, endN, rest, gap, pad) ==
  [kind |-> kind, letters |-> letters, n |-> n, endLetters |-> endLetters,
   endN |-> endN, rest |-> rest, gap |-> gap, pad |-> pad]

CellCmd(letters, n, rest) == Command("cell", letters, n, <<>>, 0, rest, <<" ">>, <<>>)
RangeCmd(letters, n, endLetters, endN, rest) ==
  Command("range", letters, n, endLetters, endN, rest, <<" ">>, <<>>)
TextCmd(words) == Command("text", <<>>, 0, <<>>, 0, words, <<" ">>, <<>>)
Spaced(cmd) == [cmd EXCEPT !.gap = <<" ", " ">>, !.pad = <<" ">>]

FirstToken(cmd) ==
  IF cmd.kind = "cell" THEN <<cmd.letters \o numberToString(cmd.n)>>
  ELSE IF cmd.kind = "range"
  THEN <<cmd.letters \o numberToString(cmd.n) \o <<"-">>
           \o cmd.endLetters \o numberToString(cmd.endN)>>
  ELSE <<>>

Text(cmd) == cmd.pad \o join(FirstToken(cmd) \o cmd.rest, cmd.gap) \o cmd.pad

Wx == <<"x">>
WHello == <<"H","e","l","l","o">>
WWorld == <<"W","o","r","l","d">>
WEquals == <<"=">>
W42 == <<"4","2">>
WName == <<"N","a","m","e">>
WAge == <<"A","g","e">>
WX == <<"X">>
Wchange == <<"c","h","a","n","g","e">>
Wcolumn == <<"c","o","l","u","m","n">>
Wheader == <<"h","e","a","d","e","r">>
Wname == <<"n","a","m","e">>
Wto == <<"t","o">>

CellCommands ==
  { CellCmd(<<"A">>, 1, <<WHello, WWorld>>),
    CellCmd(<<"B">>, 5, <<WEquals, W42>>),
    CellCmd(<<"a">>, 1, <<Wx>>),
    CellCmd(<<"C">>, 3, <<Wx>>),
    CellCmd(<<"A">>, 0, <<Wx>>),
    CellCmd(<<"A">>, 101, <<Wx>>),
    CellCmd(<<"A","A">>, 1, <<Wx>>),
    CellCmd(<<"A","A","A">>, 1, <<Wx>>),
    CellCmd(<<"A">>, 1, <<>>),
    Spaced(CellCmd(<<"B">>, 2, <<WHello, WWorld>>)) }

RangeCommands ==
  { RangeCmd(<<"A">>, 1, <<>>, 2, <<Wx>>),
    RangeCmd(<<"A">>, 1, <<"B">>, 2, <<Wx>>),
    RangeCmd(<<"A">>, 2, <<>>, 1, <<Wx>>),
    RangeCmd(<<"A">>, 0, <<>>, 1, <<Wx>>),
    RangeCmd(<<"Z">>, 1, <<"A","A">>, 1, <<Wx>>),
    RangeCmd(<<"A">>, 91, <<>>, 100, <<WX>>) }

TextCommands ==
  { TextCmd(<<WHello, WWorld>>),
    TextCmd(<<WHello>>),
    TextCmd(<<>>),
    TextCmd(<<Wchange, Wcolumn, <<"A">>, Wto, WName>>),
    TextCmd(<<Wchange, Wcolumn, <<"B">>, Wheader, Wname, Wto, WAge>>),
    TextCmd(<<Wchange, Wcolumn, <<"A","A">>, Wto, WX>>),
    Spaced(TextCmd(<<Wchange, Wcolumn, <<"b">>, Wto, WHello, WWorld>>)) }

Commands == CellCommands \cup RangeCommands \cup TextCommands

----------------------------------------------------------------------------
(* useWebSocket: one module-level socket shared by every hook instance *)

\* A socket is what io() returned: connecting until its 'connect' or
\* 'connect_error', open until it is disconnected. It remembers the hook
\* instance whose connect() made it (the setters and handlers its
\* listeners call), the isIdle its listeners closed over and the state of
\* the promise made with it. A closed socket emits nothing more and nothing
\* refers to it: it stays in the list as Closed.
Socket(owner, isIdle) ==
  [status |-> "connecting", owner |-> owner, isIdle |-> isIdle, promise |-> "pending"]
Closed == [status |-> "closed", owner |-> 0, isIdle |-> FALSE, promise |-> "none"]

Hooks == 1..MaxHooks

UpdateEvents == {"spreadsheet_update", "action_events_update", "state_events_update"}

\* globalSocket?.connected
connected(w) == w.globalSocket # 0 /\ w.sockets[w.globalSocket].status = "open"

\* now - lastConnectionAttempt < 2000
throttled(t, last) == t - last < CONNECT_THROTTLE

\* the 'disconnect' listener of socket s
onDisconnect(w, s) ==
  [w EXCEPT !.sockets[s] = Closed,
            !.hooks[w.sockets[s].owner].isConnected = FALSE,
            !.globalSocket = 0,
            !.connectionPromise = 0]

\* the 'connect_error' listener of socket s
onConnectError(w, s) ==
  [w EXCEPT !.sockets[s] = Closed,
            !.hooks[w.sockets[s].owner].connectionError = "connect_error",
            !.hooks[w.sockets[s].owner].isConnected = FALSE,
            !.globalSocket = 0,
            !.connectionPromise = 0]

\* the 'connect' listener of socket s
onConnect(w, s) ==
  [w EXCEPT !.sockets[s].status = "open",
            !.sockets[s].promise = "resolved",
            !.hooks[w.sockets[s].owner].isConnected = TRUE,
            !.hooks[w.sockets[s].owner].connectionError = "null"]

\* globalSocket.disconnect(): an open socket emits 'disconnect' to its
\* listeners before the call returns, a connecting one is closed silently
socketDisconnect(w) ==
  IF w.globalSocket = 0 THEN w
  ELSE IF w.sockets[w.globalSocket].status = "open" THEN onDisconnect(w, w.globalSocket)
  ELSE [w EXCEPT !.sockets[w.globalSocket] = Closed]

\* the executor of the promise: a socket left in globalSocket is
\* disconnected, a new one is made and its listeners registered
createSocket(w, i) ==
  [socketDisconnect(w) EXCEPT
     !.sockets = Append(@, Socket(i, w.hooks[i].isIdle)),
     !.globalSocket = Len(w.sockets) + 1,
     !.connectionPromise = Len(w.sockets) + 1]

\* connect() of instance i at time t, up to its await
connect(w, i, t) ==
  IF connected(w)
  THEN [w EXCEPT !.hooks[i].isConnected = TRUE, !.hooks[i].connectionError = "null"]
  ELSE IF throttled(t, w.lastConnectionAttempt) THEN w
  ELSE IF w.connectionPromise # 0 THEN [w EXCEPT !.lastConnectionAttempt = t]
  ELSE createSocket([w EXCEPT !.lastConnectionAttempt = t], i)

\* disconnect() of a hook whose globalSocket.disconnect() call is missing
disconnect_LeavesSocketOpen(w, i) ==
  [w EXCEPT !.globalSocket = 0,
            !.connectionPromise = 0,
            !.hooks[i].isConnected = FALSE]

\* disconnect() of instance i
disconnect(w, i) ==
  [socketDisconnect(w) EXCEPT !.globalSocket = 0,
                              !.connectionPromise = 0,
                              !.hooks[i].isConnected = FALSE]

\* a re-render of instance i with another isIdle: connect is made anew
\* (its dependency changed) and the effect that depends on it calls it
rerender(w, i, isIdle, t) == connect([w EXCEPT !.hooks[i].isIdle = isIdle], i, t)

\* an update listener of socket s: if (!isIdle) handler(data), with the
\* isIdle of the render whose connect() registered the listener; idle is
\* the isIdle of that instance's latest render
onUpdate(w, s, event) ==
  [event |-> event, idle |-> w.hooks[w.sockets[s].owner].isIdle,
   handled |-> ~w.sockets[s].isIdle]

\* the module as loaded and the hooks as first rendered
SocketHookInit ==
  /\ globalSocket = 0
  /\ connectionPromise = 0
  /\ lastConnectionAttempt = 0
  /\ sockets = <<>>
  /\ hooks = [i \in Hooks |-> [isIdle |-> FALSE, isConnected |-> FALSE,
                               connectionError |-> "null"]]
  /\ received = [event |-> "none", idle |-> FALSE, handled |-> FALSE]

----------------------------------------------------------------------------
(* useSpreadsheet: loading the grid with a throttle and a retry timer *)

\* one apiService.getState() call and one setTimeout handle
Request(showLoading, t) == [at |-> t, showLoading |-> showLoading, status |-> "pending"]
Timer(showLoading, t) == [due |-> t + RETRY_DELAY, showLoading |-> showLoading,
                          status |-> "pending"]
\* a call of loadSpreadsheetState: who made it, with what argument, when,
\* and whether it went on to call the API
Call(source, showLoading, t, issued) ==
  [source |-> source, showLoading |-> showLoading, at |-> t, issued |-> issued]

\* what getState can come back with: { success: true }, { success: false },
\* a rejection with response.status 429, any other rejection
Outcomes == {"ok", "unsuccessful", "429", "failed"}

\* the refs and the state of one useSpreadsheet instance
SheetHook ==
  [loadedState |-> loadedState, loading |-> loading, error |-> loadError,
   isInitialized |-> sheetInitialized, isInitialLoad |-> isInitialLoad,
   lastRequestTime |-> lastRequestTime, requestTimeoutRef |-> requestTimeoutRef,
   timers |-> timers, requests |-> requests, call |-> call]

\* clearTimeout(id): a pending timer will not fire; a null id, a fired or
\* a cleared timer is left as it is
clearTimeout(allTimers, id) ==
  IF id # 0 /\ allTimers[id].status = "pending"
  THEN [allTimers EXCEPT ![id].status = "cleared"]
  ELSE allTimers

\* a throttle that lets every call through
throttledRequest_Never(t, last) == FALSE

\* timeSinceLastRequest < 1000
throttledRequest(t, last) == t - last < REQUEST_THROTTLE

\* loadSpreadsheetState(showLoading) at time t, up to its await
loadSpreadsheetState(h, showLoading, t, source) ==
  IF throttledRequest(t, h.lastRequestTime)
  THEN [h EXCEPT !.call = Call(source, showLoading, t, FALSE)]
  ELSE [h EXCEPT !.timers = clearTimeout(@, h.requestTimeoutRef),
                 !.loading = IF showLoading \/ h.isInitialLoad THEN TRUE ELSE @,
                 !.error = "null",
                 !.lastRequestTime = t,
                 !.requests = Append(@, Request(showLoading, t)),
                 !.call = Call(source, showLoading, t, TRUE)]

\* the try / catch after the await, for each outcome of request r
resolved(h, r, outcome, t) ==
  IF outcome = "ok"
  THEN [h EXCEPT !.loadedState = r, !.isInitialized = TRUE]
  ELSE IF outcome = "unsuccessful"
  THEN [h EXCEPT !.error = "Failed to load spreadsheet state"]
  ELSE IF outcome = "429"
  THEN [h EXCEPT !.error = "Too many requests. Please wait a moment and try again.",
                 !.timers = Append(@, Timer(h.requests[r].showLoading, t)),
                 !.requestTimeoutRef = Len(h.timers) + 1]
  ELSE [h EXCEPT !.error = "Network Error"]

\* the whole continuation of request r: try / catch, then finally
settled(h, r, outcome, t) ==
  [resolved(h, r, outcome, t) EXCEPT !.requests[r].status = "settled",
                                     !.loading = FALSE,
                                     !.isInitialLoad = FALSE]

\* the callback of timer k: loadSpreadsheetState(showLoading) of the call
\* that set it
retry(h, k, t) ==
  loadSpreadsheetState([h EXCEPT !.timers[k].status = "fired"],
                       h.timers[k].showLoading, t, "retry")

\* the cleanup effect
cleanup(h) == [h EXCEPT !.timers = clearTimeout(@, h.requestTimeoutRef)]

\* the hook as first rendered, before its effects have run
SheetHookInit ==
  /\ loadedState = 0
  /\ loading = FALSE
  /\ loadError = "null"
  /\ sheetInitialized = FALSE
  /\ isInitialLoad = TRUE
  /\ lastRequestTime = 0
  /\ requestTimeoutRef = 0
  /\ timers = <<>>
  /\ requests = <<>>
  /\ mounted = TRUE
  /\ call = Call("none", FALSE, 0, FALSE)

----------------------------------------------------------------------------
(* InputBox (frontend/src/components/InputBox/index.tsx) *)

\* A selection prop as one render receives it. `given` is FALSE when the
\* parent omits the prop: the default `= []` of the parameter list is then
\* evaluated by every render and yields a new array each time. `identity`
\* tells the arrays a parent passes apart.
ArrayProp(given, items, identity) ==
  [given |-> given, items |-> items, identity |-> identity]
Omitted == ArrayProp(FALSE, <<>>, 0)

\* Object.is on the values two renders have for one dependency
sameArray(a, b) == a.given /\ b.given /\ a.identity = b.identity

Props(selectedCells, selectedColumns, selectedRows, isProcessing) ==
  [selectedCells |-> selectedCells, selectedColumns |-> selectedColumns,
   selectedRows |-> selectedRows, isProcessing |-> isProcessing]

\* whether the dependencies [selectedCells, selectedColumns, selectedRows]
\* of the first effect differ between two renders
selectionChanged(before, after) ==
  \/ ~sameArray(before.selectedCells, after.selectedCells)
  \/ ~sameArray(before.selectedColumns, after.selectedColumns)
  \/ ~sameArray(before.selectedRows, after.selectedRows)

NoError == <<>>
PleaseEnter == <<"P","l","e","a","s","e"," ","e","n","t","e","r"," ","a"," ",
                 "m","e","s","s","a","g","e">>

\* one render with the given props and the effect `setMessage('')` that
\* follows it when a dependency changed; the render that setMessage('')
\* asks for finds the message empty already
render(box, props) ==
  [box EXCEPT !.props = props,
              !.message = IF selectionChanged(box.props, props) THEN <<>> ELSE @]

\* a state setter, and the render it asks for when the state changes
setMessage(box, value) ==
  IF value = box.message THEN box
  ELSE render([box EXCEPT !.message = value], box.props)
setError(box, value) ==
  IF value = box.error THEN box
  ELSE render([box EXCEPT !.error = value], box.props)

\* the Send button's `disabled`
sendDisabled(box) == box.props.isProcessing \/ trim(box.message) = <<>>

\* selectedCells.map(cell => `${cell} ${message.trim()}`)
RECURSIVE cellCommands(_, _)
cellCommands(selectedCells, value) ==
  IF selectedCells = <<>> THEN <<>>
  ELSE <<Head(selectedCells) \o <<" ">> \o value>>
         \o cellCommands(Tail(selectedCells), value)

\* selectedColumns.map(col => `${col}1-${col}100 ${message.trim()}`)
RECURSIVE columnCommands(_, _)
columnCommands(selectedColumns, value) ==
  IF selectedColumns = <<>> THEN <<>>
  ELSE <<Head(selectedColumns) \o <<"1", "-">> \o Head(selectedColumns)
           \o <<"1", "0", "0", " ">> \o value>>
         \o columnCommands(Tail(selectedColumns), value)

\* selectedRows.map(row => `A${row}-Z${row} ${message.trim()}`)
RECURSIVE rowCommands(_, _)
rowCommands(selectedRows, value) ==
  IF selectedRows = <<>> THEN <<>>
  ELSE <<<<"A">> \o numberToString(Head(selectedRows)) \o <<"-", "Z">>
           \o numberToString(Head(selectedRows)) \o <<" ">> \o value>>
         \o rowCommands(Tail(selectedRows), value)

\* handleSubmit, lines 64-78
commandToSend(box) ==
  IF Len(box.props.selectedCells.items) > 0
  THEN join(cellCommands(box.props.selectedCells.items, trim(box.message)), <<" ">>)
  ELSE IF Len(box.props.selectedColumns.items) > 0
  THEN join(columnCommands(box.props.selectedColumns.items, trim(box.message)), <<" ">>)
  ELSE IF Len(box.props.selectedRows.items) > 0
  THEN join(rowCommands(box.props.selectedRows.items, trim(box.message)), <<" ">>)
  ELSE trim(box.message)

\* a call of onMessageSent: the text, the value and the selection it was
\* built from
Sent(status, text, value, props) ==
  [status |-> status, text |-> text, value |-> value,
   selectedCells |-> props.selectedCells.items,
   selectedColumns |-> props.selectedColumns.items,
   selectedRows |-> props.selectedRows.items]
NothingSent == Sent("none", <<>>, <<>>, Props(Omitted, Omitted, Omitted, FALSE))

\* handleSubmit up to its await: the box, and the call of onMessageSent if
\* it made one
handleSubmit(box, before) ==
  IF trim(box.message) = <<>>
  THEN [box |-> setError(box, PleaseEnter), sent |-> before]
  ELSE IF box.props.isProcessing
  THEN [box |-> box, sent |-> before]
  ELSE [box |-> setError(box, NoError),
        sent |-> Sent("pending", commandToSend(box), trim(box.message), box.props)]

\* handleSubmit after its await: setMessage('')
submitted(box) == setMessage(box, <<>>)

Event(kind, value) == [kind |-> kind, value |-> value]

\* Home.handleCellUpdate(row, col, value): the message it sends, and the
\* number of the call of processUserMessage that receives it
CellUpdate(row, col, value, message, callNumber) ==
  [row |-> row, col |-> col, value |-> value, message |-> message,
   call |-> callNumber]
NoCellUpdate == CellUpdate(0, 0, <<>>, <<>>, 0)

\* `${String.fromCharCode(65 + col)}${row + 1} ${value}`
handleCellUpdate(row, col, value) ==
  <<fromCharCode(65 + col)>> \o numberToString(row + 1) \o <<" ">> \o value

----------------------------------------------------------------------------
(* useIdleDetection (frontend/src/hooks/useIdleDetection.ts) as Home uses it *)

\* `effect` is "pending" when a render has changed resetTimer and the
\* listener effect has yet to run again: resetTimer depends on isIdle and
\* on the callbacks onIdle and onActive, which Home passes as inline
\* functions, new ones at every render. `called` is the callback the
\* latest step called, `event` what that step was.
IdleDetection(isIdle, timeoutRef, effect, called, event) ==
  [isIdle |-> isIdle, timeoutRef |-> timeoutRef, effect |-> effect,
   called |-> called, event |-> event]

\* setIsIdle(value): a render, and with it a new resetTimer, when the
\* state changes
setIsIdle(d, value) ==
  IF d.isIdle = value THEN d
  ELSE [d EXCEPT !.isIdle = value, !.effect = "pending"]

\* resetTimer: clearTimeout, setIsIdle(false), onActive() if the closure
\* saw isIdle, setTimeout(..., idleTime)
resetTimer(d, t, event) ==
  [setIsIdle(d, FALSE) EXCEPT !.timeoutRef = t + IdleTime,
                              !.called = IF d.isIdle THEN "onActive" ELSE "none",
                              !.event = event]

\* the listener effect runs again: its cleanup clears the timer, its body
\* registers the listeners and calls resetTimer()
listenerEffect(d, t) == resetTimer([d EXCEPT !.effect = "none"], t, "effect")

\* the callback of the timer: setIsIdle(true), onIdle()
onTimeout(d) ==
  [setIsIdle(d, TRUE) EXCEPT !.timeoutRef = 0, !.called = "onIdle",
                             !.event = "timeout"]

\* forceIdle: clearTimeout, setIsIdle(true), onIdle()
forceIdle(d) ==
  [setIsIdle(d, TRUE) EXCEPT !.timeoutRef = 0, !.called = "onIdle",
                             !.event = "forceIdle"]

\* a render of Home for a reason of its own
idleRender(d) == [d EXCEPT !.effect = "pending", !.called = "none", !.event = "render"]

\* the component after its first render and its effects, the parent
\* having passed no selection prop
InputBoxInit ==
  /\ inputBox = [message |-> <<>>, error |-> NoError,
                 props |-> Props(Omitted, Omitted, Omitted, FALSE)]
  /\ sent = NothingSent
  /\ lastEvent = Event("mount", <<>>)
  /\ cellUpdate = NoCellUpdate
  /\ idleDetection = IdleDetection(FALSE, StartTime + IdleTime, "none", "none", "mount")
  /\ updateTimeoutRef = 0
  /\ lastUpdateTime = 0
  /\ inbox = <<>>
  /\ refreshed = [notified |-> 0, fetched |-> 0]

\* the browser side before anything has run
FrontendInit ==
  /\ now = StartTime
  /\ SocketHookInit
  /\ SheetHookInit
  /\ InputBoxInit

----------------------------------------------------------------------------
(* The store as a state machine *)

WSampleData == <<"S","a","m","p","l","e"," ","D","a","t","a">>

\* initializeMockData: a cell "Row <r> Col <L>" for each mock coordinate
MockCell(row, col) ==
  SpreadsheetCell(row, col,
                  <<"R","o","w"," ">> \o numberToString(row + 1)
                  \o <<" ","C","o","l"," ">> \o columnIndexToLetter(col))

MockCells ==
  [k \in 1..(MockRows * MockCols) |->
     MockCell((k - 1) \div MockCols, (k - 1) % MockCols)]

Store == [userEvents |-> userEvents, actionEvents |-> actionEvents,
          stateEvents |-> stateEvents, spreadsheetState |-> spreadsheetState]

Init ==
  /\ userEvents = <<>>
  /\ actionEvents = <<ActionEvent("UPDATE_CELL", 0, 0, [value |-> WSampleData])>>
  /\ stateEvents = <<StateEvent("CELL_UPDATE", 0, 0, WSampleData)>>
  /\ spreadsheetState = [cells |-> MockCells,
                         rows |-> INITIAL_ROWS,
                         columns |-> INITIAL_COLUMNS,
                         headers |-> generateColumnHeaders(INITIAL_COLUMNS)]
  /\ io = FALSE
  /\ broadcast = <<>>
  /\ request = TextCmd(<<>>)
  /\ result = Return([called |-> FALSE])
  /\ response = NoResponse
  /\ FrontendInit

\* WebSocketService.initialize(server), called once by the Server constructor
Initialize ==
  /\ ~io
  /\ io' = TRUE
  /\ UNCHANGED <<userEvents, actionEvents, stateEvents, spreadsheetState,
                 broadcast, request, result, response>>
  /\ UNCHANGED frontend

\* the effect of one call on the store and on what the caller sees
Commit(cmd, done) ==
  /\ userEvents' = done.store.userEvents
  /\ actionEvents' = done.store.actionEvents
  /\ stateEvents' = done.store.stateEvents
  /\ spreadsheetState' = done.store.spreadsheetState
  /\ broadcast' = done.emitted
  /\ request' = cmd
  /\ result' = done.outcome
  /\ response' = afterCall(response, spreadsheetState, done.store.spreadsheetState)
  /\ UNCHANGED io
  /\ UNCHANGED frontend

\* one call of processUserMessage: the function is async but awaits
\* nothing, so a call runs to its end within one turn of the event loop
ProcessUserMessage ==
  \E cmd \in Commands :
    /\ Len(userEvents) < MaxCmds
    /\ Commit(cmd, processUserMessage(Store, io, Text(cmd)))

\* GET /action
GetActions ==
  /\ response' = actionsResponse(getActionEvents(Store))
  /\ UNCHANGED <<userEvents, actionEvents, stateEvents, spreadsheetState, io,
                 broadcast, request, result>>
  /\ UNCHANGED frontend

\* GET /state: the two getters run inside one synchronous stretch and the
\* handler resumes and serialises before another request handler can start
GetState ==
  /\ response' = stateResponse(getSpreadsheetState(Store), getStateEvents(Store))
  /\ UNCHANGED <<userEvents, actionEvents, stateEvents, spreadsheetState, io,
                 broadcast, request, result>>
  /\ UNCHANGED frontend

Next == ProcessUserMessage \/ Initialize \/ GetActions \/ GetState

Spec == Init /\ [][Next]_vars

----------------------------------------------------------------------------
(* POST /message: the controller in front of the store *)

\* A value of req.body.message as JavaScript sees it: its typeof, and the
\* number or the characters it is (the field that does not apply is 0 or
\* empty).
Undefined == [type |-> "undefined", number |-> 0, chars |-> <<>>]
Num(n) == [type |-> "number", number |-> n, chars |-> <<>>]
Str(chars) == [type |-> "string", number |-> 0, chars |-> chars]

typeof(v) == v.type
\* !v : undefined, 0 and the empty string are falsy
falsy(v) ==
  \/ v.type = "undefined"
  \/ v.type = "number" /\ v.number = 0
  \/ v.type = "string" /\ v.chars = <<>>

\* the negation of the controller's guard
validMessage(message) == ~(falsy(message) \/ typeof(message) # "string")

\* res.json(body) without res.status(400): the status stays 200
rejected_DefaultStatus(store) ==
  [store |-> store, called |-> FALSE, emitted |-> <<>>,
   reply |-> [forwarded |-> FALSE, status |-> 200,
              body |-> [success |-> FALSE,
                        error |-> "Message is required and must be a string"]]]

\* return res.status(400).json({ success: false, error })
rejected(store) ==
  [store |-> store, called |-> FALSE, emitted |-> <<>>,
   reply |-> [forwarded |-> FALSE, status |-> 400,
              body |-> [success |-> FALSE,
                        error |-> "Message is required and must be a string"]]]

\* res.json({ success: true, ... }) after the call returned, next(error)
\* after it threw
replyTo(outcome) ==
  IF outcome.threw
  THEN [forwarded |-> TRUE, error |-> outcome.error]
  ELSE [forwarded |-> FALSE, status |-> 200,
        body |-> [success |-> TRUE,
                  message |-> "User event processed successfully",
                  userEvent |-> outcome.value.userEvent,
                  parsedCommand |-> outcome.value.parsedCommand]]

processed(done) ==
  [store |-> done.store, called |-> TRUE, emitted |-> done.emitted,
   reply |-> replyTo(done.outcome)]

sendMessage(store, socketServer, body) ==
  IF ~validMessage(body.message)
  THEN rejected(store)
  ELSE processed(processUserMessage(store, socketServer, body.message.chars))

\* the request bodies: every command as a string, no message at all, and
\* messages that are numbers
Bodies ==
  {[message |-> Str(Text(cmd))] : cmd \in Commands}
    \cup {[message |-> Undefined], [message |-> Num(123)], [message |-> Num(0)]}

\* the state after construction, with no request received yet
ControllerInit ==
  /\ userEvents = <<>>
  /\ actionEvents = <<ActionEvent("UPDATE_CELL", 0, 0, [value |-> WSampleData])>>
  /\ stateEvents = <<StateEvent("CELL_UPDATE", 0, 0, WSampleData)>>
  /\ spreadsheetState = [cells |-> MockCells,
                         rows |-> INITIAL_ROWS,
                         columns |-> INITIAL_COLUMNS,
                         headers |-> generateColumnHeaders(INITIAL_COLUMNS)]
  /\ io = FALSE
  /\ broadcast = <<>>
  /\ request = [message |-> Undefined]
  /\ result = [forwarded |-> FALSE, status |-> 0, body |-> [success |-> FALSE]]
  /\ response = NoResponse
  /\ FrontendInit

\* the effect of one request on the store and the reply it gets
Replied(body, done) ==
  /\ userEvents' = done.store.userEvents
  /\ actionEvents' = done.store.actionEvents
  /\ stateEvents' = done.store.stateEvents
  /\ spreadsheetState' = done.store.spreadsheetState
  /\ broadcast' = IF done.called THEN done.emitted ELSE broadcast
  /\ request' = body
  /\ result' = done.reply
  /\ response' = afterCall(response, spreadsheetState, done.store.spreadsheetState)
  /\ UNCHANGED io
  /\ UNCHANGED frontend

\* one POST /message: the handler awaits a call that awaits nothing, so
\* no other handler runs between its guard and its reply
SendMessage ==
  \E body \in Bodies :
    /\ validMessage(body.message) => Len(userEvents) < MaxCmds
    /\ Replied(body, sendMessage(Store, io, body))

ControllerNext == SendMessage \/ Initialize

ControllerSpec == ControllerInit /\ [][ControllerNext]_vars

----------------------------------------------------------------------------
(* The column codec on its own *)

\* The codec is a pair of pure functions: its specification draws an
\* input (request) and applies the two functions in turn, each to what the
\* other returned; result.value lists what has been returned so far.
LetterStrings == UNION {[1..n -> UpperChars] : n \in 1..MaxLetters}
CodecInputs ==
  {[kind |-> "index", input |-> i] : i \in 0..MaxIndex}
    \cup {[kind |-> "letter", input |-> letter] : letter \in LetterStrings}

\* the value the next function is applied to
Latest == IF result.value = <<>> THEN request.input ELSE result.value[Len(result.value)]
\* whether that value is an index (otherwise it is a letter string)
LatestIsIndex == (request.kind = "index") = (Len(result.value) % 2 = 0)

CodecInit ==
  /\ userEvents = <<>>
  /\ actionEvents = <<>>
  /\ stateEvents = <<>>
  /\ spreadsheetState = [cells |-> <<>>,
                         rows |-> INITIAL_ROWS,
                         columns |-> INITIAL_COLUMNS,
                         headers |-> generateColumnHeaders(INITIAL_COLUMNS)]
  /\ io = FALSE
  /\ broadcast = <<>>
  /\ request \in CodecInputs
  /\ result = Return(<<>>)
  /\ response = NoResponse
  /\ FrontendInit

ColumnIndexToLetter ==
  /\ Len(result.value) < 2
  /\ LatestIsIndex
  /\ result' = Return(Append(result.value, columnIndexToLetter(Latest)))
  /\ UNCHANGED <<userEvents, actionEvents, stateEvents, spreadsheetState, io,
                 broadcast, request, response>>
  /\ UNCHANGED frontend

LetterToColumnIndex ==
  /\ Len(result.value) < 2
  /\ ~LatestIsIndex
  /\ result' = Return(Append(result.value, letterToColumnIndex(Latest)))
  /\ UNCHANGED <<userEvents, actionEvents, stateEvents, spreadsheetState, io,
                 broadcast, request, response>>
  /\ UNCHANGED frontend

CodecNext == ColumnIndexToLetter \/ LetterToColumnIndex

CodecSpec == CodecInit /\ [][CodecNext]_vars

----------------------------------------------------------------------------
(* The browser: time, the sockets and the hooks as state machines *)

\* time passes
Tick ==
  /\ now < StartTime + MaxTicks * TickMs
  /\ now' = now + TickMs
  /\ UNCHANGED <<backend, socketHook, sheetHook, page>>

\* the module-level variables of useWebSocket.ts, the sockets and the hooks
SocketHook ==
  [globalSocket |-> globalSocket, connectionPromise |-> connectionPromise,
   lastConnectionAttempt |-> lastConnectionAttempt, sockets |-> sockets,
   hooks |-> hooks]

\* the effect of one synchronous stretch of useWebSocket code
Become(w) ==
  /\ Len(w.sockets) <= MaxSockets
  /\ globalSocket' = w.globalSocket
  /\ connectionPromise' = w.connectionPromise
  /\ lastConnectionAttempt' = w.lastConnectionAttempt
  /\ sockets' = w.sockets
  /\ hooks' = w.hooks
  /\ UNCHANGED <<received, now, backend, sheetHook, page>>

\* connect() called by an instance: by its effect after the first render
\* or by the component that uses the hook. What follows the await only logs.
Connect == \E i \in Hooks : Become(connect(SocketHook, i, now))

\* disconnect() called by an instance
Disconnect == \E i \in Hooks : Become(disconnect(SocketHook, i))

\* the idle detector of the component of instance i changes its isIdle
SetIdle == \E i \in Hooks : Become(rerender(SocketHook, i, ~hooks[i].isIdle, now))

\* the connection of a socket is established
SocketConnect ==
  \E s \in 1..Len(sockets) :
    /\ sockets[s].status = "connecting"
    /\ Become(onConnect(SocketHook, s))

\* the connection of a socket fails
SocketConnectError ==
  \E s \in 1..Len(sockets) :
    /\ sockets[s].status = "connecting"
    /\ Become(onConnectError(SocketHook, s))

\* the server or the transport closes an open socket
SocketDisconnect ==
  \E s \in 1..Len(sockets) :
    /\ sockets[s].status = "open"
    /\ Become(onDisconnect(SocketHook, s))

\* the server emits an update to an open socket
Receive ==
  \E s \in 1..Len(sockets), event \in UpdateEvents :
    /\ sockets[s].status = "open"
    /\ received' = onUpdate(SocketHook, s, event)
    /\ UNCHANGED <<globalSocket, connectionPromise, lastConnectionAttempt, sockets,
                   hooks, now, backend, sheetHook, page>>

WebSocketNext ==
  \/ Connect \/ Disconnect \/ SetIdle
  \/ SocketConnect \/ SocketConnectError \/ SocketDisconnect
  \/ Receive \/ Tick

WebSocketSpec == Init /\ [][WebSocketNext]_vars

\* the effect of one synchronous stretch of useSpreadsheet code
Loaded(h) ==
  /\ Len(h.requests) <= MaxRequests
  /\ loadedState' = h.loadedState
  /\ loading' = h.loading
  /\ loadError' = h.error
  /\ sheetInitialized' = h.isInitialized
  /\ isInitialLoad' = h.isInitialLoad
  /\ lastRequestTime' = h.lastRequestTime
  /\ requestTimeoutRef' = h.requestTimeoutRef
  /\ timers' = h.timers
  /\ requests' = h.requests
  /\ call' = h.call
  /\ UNCHANGED <<now, backend, socketHook, page>>

\* the effect after the first render: loadSpreadsheetState(true)
InitialLoad ==
  /\ mounted
  /\ call.source = "none"
  /\ Loaded(loadSpreadsheetState(SheetHook, TRUE, now, "effect"))
  /\ UNCHANGED mounted

\* loadSpreadsheetState called by the component that uses the hook
LoadSpreadsheetState ==
  \E showLoading \in BOOLEAN :
    /\ mounted
    /\ call.source # "none"
    /\ Loaded(loadSpreadsheetState(SheetHook, showLoading, now, "explicit"))
    /\ UNCHANGED mounted

\* a getState call comes back and the function resumes after its await;
\* the refs are written whether or not the component is still mounted
Settle ==
  \E r \in 1..Len(requests), outcome \in Outcomes :
    /\ requests[r].status = "pending"
    /\ Loaded(settled(SheetHook, r, outcome, now))
    /\ UNCHANGED mounted

\* a retry timer that is due fires
Retry ==
  \E k \in 1..Len(timers) :
    /\ timers[k].status = "pending"
    /\ now >= timers[k].due
    /\ Loaded(retry(SheetHook, k, now))
    /\ UNCHANGED mounted

\* the component unmounts: the cleanup effect runs
Unmount ==
  /\ mounted
  /\ mounted' = FALSE
  /\ Loaded(cleanup(SheetHook))

SheetNext ==
  \/ InitialLoad \/ LoadSpreadsheetState \/ Settle \/ Retry \/ Unmount \/ Tick

SheetSpec == Init /\ [][SheetNext]_vars

----------------------------------------------------------------------------
(* The InputBox, its parent and the store behind them *)

WColumn == <<"C","o","l","u","m","n">>
WData == <<"D","a","t","a">>
WA1 == <<"A","1">>
WC3 == <<"C","3">>
WTest == <<"T","e","s","t">>
WMessage == <<"M","e","s","s","a","g","e">>

\* what is typed into the input
Inputs ==
  { <<" ">>,
    join(<<WColumn, WData>>, <<" ">>),
    join(<<WA1, WTest, WMessage>>, <<" ">>) }

\* what Spreadsheet hands to onSelectionChange: cells, columns, rows
Selection(selectedCells, selectedColumns, selectedRows) ==
  [selectedCells |-> selectedCells, selectedColumns |-> selectedColumns,
   selectedRows |-> selectedRows]
Selections ==
  { Selection(<<>>, <<>>, <<>>),
    Selection(<<WA1>>, <<>>, <<>>),
    Selection(<<WA1, WC3>>, <<>>, <<>>),
    Selection(<<>>, <<<<"A">>>>, <<>>),
    Selection(<<>>, <<<<"A">>, <<"B">>>>, <<>>),
    Selection(<<>>, <<>>, <<1>>),
    Selection(<<>>, <<>>, <<1, 3>>) }

\* an array the parent has not passed before
newIdentity(prop) == IF prop.given THEN 1 - prop.identity ELSE 0

\* the input's onChange; the input is disabled while isProcessing
Type ==
  \E value \in Inputs :
    /\ ~inputBox.props.isProcessing
    /\ inputBox' = setMessage(inputBox, value)
    /\ lastEvent' = Event("change", value)
    /\ UNCHANGED <<sent, cellUpdate, idleDetection, homeRefresh,
                 now, backend, socketHook, sheetHook>>

\* Home.handleSelectionChange: the parent keeps the three arrays it is
\* handed in its state and passes them on
Select ==
  \E selection \in Selections :
    /\ inputBox' =
         render(inputBox,
                Props(ArrayProp(TRUE, selection.selectedCells,
                                newIdentity(inputBox.props.selectedCells)),
                      ArrayProp(TRUE, selection.selectedColumns,
                                newIdentity(inputBox.props.selectedColumns)),
                      ArrayProp(TRUE, selection.selectedRows,
                                newIdentity(inputBox.props.selectedRows)),
                      inputBox.props.isProcessing))
    /\ lastEvent' = Event("select", <<>>)
    /\ UNCHANGED <<sent, cellUpdate, idleDetection, homeRefresh,
                 now, backend, socketHook, sheetHook>>

\* the parent renders again for a reason of its own and passes what it
\* passed before
Rerender ==
  /\ inputBox' = render(inputBox, inputBox.props)
  /\ lastEvent' = Event("render", <<>>)
  /\ UNCHANGED <<sent, cellUpdate, idleDetection, homeRefresh,
                 now, backend, socketHook, sheetHook>>

\* the box after Home.handleMessageSent has set isProcessing
processing(box, isProcessing) ==
  IF box.props.isProcessing = isProcessing THEN box
  ELSE render(box, [box.props EXCEPT !.isProcessing = isProcessing])

\* the form is submitted: handleSubmit up to its await, and
\* Home.handleMessageSent up to its own
Submitting(h) ==
  /\ inputBox' = IF h.sent.status = "pending" /\ sent.status # "pending"
                 THEN processing(h.box, TRUE) ELSE h.box
  /\ sent' = h.sent
  /\ lastEvent' = Event("submit", <<>>)
  /\ UNCHANGED <<cellUpdate, idleDetection, homeRefresh,
                 now, backend, socketHook, sheetHook>>
Submit == Submitting(handleSubmit(inputBox, sent))

\* POST /message reaches the store, which applies the text; both
\* functions resume: Home clears isProcessing, InputBox its message. A
\* column fill writes 100 rows a column and is not applied here.
Applying(done) ==
  /\ userEvents' = done.store.userEvents
  /\ actionEvents' = done.store.actionEvents
  /\ stateEvents' = done.store.stateEvents
  /\ spreadsheetState' = done.store.spreadsheetState
  /\ broadcast' = done.emitted
  /\ result' = done.outcome
  /\ sent' = [sent EXCEPT !.status = IF done.outcome.threw THEN "failed" ELSE "applied"]
  /\ inputBox' = submitted(processing(inputBox, FALSE))
  /\ lastEvent' = Event("resolve", <<>>)
  /\ UNCHANGED <<io, request, response, cellUpdate, idleDetection, homeRefresh,
                 now, socketHook, sheetHook>>
Apply ==
  /\ sent.status = "pending"
  /\ sent.selectedCells # <<>> \/ sent.selectedColumns = <<>>
  /\ Len(userEvents) < MaxSubmits
  /\ Applying(processUserMessage(Store, io, sent.text))

\* the request does not reach the server: apiService.sendMessage rejects,
\* Home catches, and both functions resume as above
Reject ==
  /\ sent.status = "pending"
  /\ sent' = [sent EXCEPT !.status = "failed"]
  /\ inputBox' = submitted(processing(inputBox, FALSE))
  /\ lastEvent' = Event("resolve", <<>>)
  /\ UNCHANGED <<cellUpdate, idleDetection, homeRefresh,
                 now, backend, socketHook, sheetHook>>

InputBoxNext == Type \/ Select \/ Rerender \/ Submit \/ Apply \/ Reject

InputBoxSpec == Init /\ [][InputBoxNext]_vars

----------------------------------------------------------------------------
(* Inline edits of the grid *)

\* the cells edited and the values entered
EditRows == {0, 1, 99}
EditCols == {0, 1, 25, 26}
EditValues == {Wx, join(<<WHello, WWorld>>, <<" ">>)}

\* the effect of one edit on the store and on what the page keeps
Edited(row, col, value, done) ==
  /\ userEvents' = done.store.userEvents
  /\ actionEvents' = done.store.actionEvents
  /\ stateEvents' = done.store.stateEvents
  /\ spreadsheetState' = done.store.spreadsheetState
  /\ broadcast' = done.emitted
  /\ result' = done.outcome
  /\ cellUpdate' = CellUpdate(row, col, value, handleCellUpdate(row, col, value),
                              Len(done.store.userEvents))
  /\ UNCHANGED <<io, request, response, now, socketHook, sheetHook,
                 inputBox, sent, lastEvent, idleDetection, homeRefresh>>

\* Spreadsheet.handleEditComplete on a cell the grid displays:
\* onCellUpdate(row, col, editValue) is Home.handleCellUpdate, whose
\* message the store applies
EditCell ==
  \E row \in EditRows, col \in EditCols, value \in EditValues :
    /\ row < spreadsheetState.rows
    /\ col < spreadsheetState.columns
    /\ Len(userEvents) < MaxCmds
    /\ Edited(row, col, value,
              processUserMessage(Store, io, handleCellUpdate(row, col, value)))

EditNext == EditCell \/ ProcessUserMessage

EditSpec == Init /\ [][EditNext]_vars

----------------------------------------------------------------------------
(* Home: the refresh of the grid after an update from the server. The
   socket of the page is open and its hook is not idle throughout, so that
   every update message reaches its handler. *)

\* the refs of Home's debounce and the useSpreadsheet instance it calls
HomeRefresh(h, timeoutRef, lastTime) ==
  [hook |-> h, updateTimeoutRef |-> timeoutRef, lastUpdateTime |-> lastTime]

\* debouncedUpdate(() => loadSpreadsheetState(false)) at time t
debouncedUpdate(home, t) ==
  IF t - home.lastUpdateTime < DEBOUNCE_DELAY
  THEN [home EXCEPT !.updateTimeoutRef = t + DEBOUNCE_DELAY]
  ELSE HomeRefresh(loadSpreadsheetState(home.hook, FALSE, t, "update"),
                   home.updateTimeoutRef, t)

\* the callback of the debounce timer
debounceTimeout(home, t) ==
  HomeRefresh(loadSpreadsheetState(home.hook, FALSE, t, "update"), 0, t)

\* handleSpreadsheetUpdate and handleStateEventsUpdate ask for a refresh,
\* handleActionEventsUpdate only logs
handleUpdate(home, type, t) ==
  IF type = "action_events_update" THEN home ELSE debouncedUpdate(home, t)

\* the number of commands the store has applied, the mock event included
Version(store) == Len(store.actionEvents)

\* the messages of one broadcast as the page's socket will receive them
RECURSIVE Messages(_, _)
Messages(emitted, version) ==
  IF emitted = <<>> THEN <<>>
  ELSE <<[type |-> Head(emitted).type, version |-> version]>>
         \o Messages(Tail(emitted), version)

\* the commands sent to the store while the page is open
RefreshCommands ==
  { CellCmd(<<"A">>, 1, <<WHello, WWorld>>), CellCmd(<<"A">>, 0, <<Wx>>) }

\* a command is processed and its updates are broadcast
Served(cmd, done) ==
  /\ userEvents' = done.store.userEvents
  /\ actionEvents' = done.store.actionEvents
  /\ stateEvents' = done.store.stateEvents
  /\ spreadsheetState' = done.store.spreadsheetState
  /\ broadcast' = done.emitted
  /\ request' = cmd
  /\ result' = done.outcome
  /\ inbox' = inbox \o Messages(done.emitted, Version(done.store))
  /\ UNCHANGED <<io, response, now, socketHook, sheetHook, inputBox, sent,
                 lastEvent, cellUpdate, idleDetection, updateTimeoutRef,
                 lastUpdateTime, refreshed>>
Serve ==
  \E cmd \in RefreshCommands :
    /\ Len(userEvents) < MaxSubmits
    /\ Served(cmd, processUserMessage(Store, io, Text(cmd)))

\* WebSocketService.initialize, with the page left as it is
Listen ==
  /\ ~io
  /\ io' = TRUE
  /\ UNCHANGED <<userEvents, actionEvents, stateEvents, spreadsheetState,
                 broadcast, request, result, response, frontend>>

Home == HomeRefresh(SheetHook, updateTimeoutRef, lastUpdateTime)

\* the effect of one synchronous stretch of Home's and useSpreadsheet's
\* code; a request it issues will see every command applied so far
Refreshing(home, notified, rest) ==
  /\ Len(home.hook.requests) <= MaxRequests
  /\ loadedState' = home.hook.loadedState
  /\ loading' = home.hook.loading
  /\ loadError' = home.hook.error
  /\ sheetInitialized' = home.hook.isInitialized
  /\ isInitialLoad' = home.hook.isInitialLoad
  /\ lastRequestTime' = home.hook.lastRequestTime
  /\ requestTimeoutRef' = home.hook.requestTimeoutRef
  /\ timers' = home.hook.timers
  /\ requests' = home.hook.requests
  /\ call' = home.hook.call
  /\ updateTimeoutRef' = home.updateTimeoutRef
  /\ lastUpdateTime' = home.lastUpdateTime
  /\ inbox' = rest
  /\ refreshed' = [notified |-> notified,
                   fetched |-> IF Len(home.hook.requests) > Len(requests)
                               THEN Version(Store) ELSE refreshed.fetched]
  /\ UNCHANGED <<now, backend, socketHook, mounted, inputBox, sent, lastEvent,
                 cellUpdate, idleDetection>>

\* the socket hands the next update message to its handler of Home
Deliver ==
  /\ inbox # <<>>
  /\ Refreshing(handleUpdate(Home, Head(inbox).type, now),
                Max(refreshed.notified, Head(inbox).version), Tail(inbox))

\* the debounce timer is due
DebounceTimeout ==
  /\ updateTimeoutRef # 0
  /\ now >= updateTimeoutRef
  /\ Refreshing(debounceTimeout(Home, now), refreshed.notified, inbox)

\* the steps of useSpreadsheet, as in SheetSpec
PageLoad ==
  /\ call.source = "none"
  /\ Refreshing([Home EXCEPT !.hook = loadSpreadsheetState(SheetHook, TRUE, now, "effect")],
                refreshed.notified, inbox)
PageSettle ==
  \E r \in 1..Len(requests), outcome \in Outcomes :
    /\ requests[r].status = "pending"
    /\ Refreshing([Home EXCEPT !.hook = settled(SheetHook, r, outcome, now)],
                  refreshed.notified, inbox)
PageRetry ==
  \E k \in 1..Len(timers) :
    /\ timers[k].status = "pending"
    /\ now >= timers[k].due
    /\ Refreshing([Home EXCEPT !.hook = retry(SheetHook, k, now)],
                  refreshed.notified, inbox)

\* a shorter time passes
Moment ==
  /\ now < StartTime + MaxMoments * DEBOUNCE_DELAY
  /\ now' = now + DEBOUNCE_DELAY
  /\ UNCHANGED <<backend, socketHook, sheetHook, page>>

RefreshNext ==
  \/ Listen \/ Serve \/ Deliver \/ DebounceTimeout
  \/ PageLoad \/ PageSettle \/ PageRetry \/ Tick \/ Moment

RefreshSpec == Init /\ [][RefreshNext]_vars

\* Messages are delivered, timers fire, responses come back, the mount
\* effect runs and time passes; nobody has to send a command.
FairRefreshSpec ==
  /\ RefreshSpec
  /\ WF_vars(Deliver) /\ WF_vars(DebounceTimeout) /\ WF_vars(PageLoad)
  /\ WF_vars(PageSettle) /\ WF_vars(PageRetry) /\ WF_vars(Tick \/ Moment)

----------------------------------------------------------------------------
(* The idle detector *)

Idling(d) ==
  /\ idleDetection' = d
  /\ UNCHANGED <<now, backend, socketHook, sheetHook, inputBox, sent, lastEvent,
                 cellUpdate, homeRefresh>>

\* a pending effect runs before anything else is handled
IdleEffect ==
  /\ idleDetection.effect = "pending"
  /\ Idling(listenerEffect(idleDetection, now))

\* one of the document events the hook listens for: handleActivity
Activity ==
  /\ idleDetection.effect = "none"
  /\ Idling(resetTimer(idleDetection, now, "activity"))

\* forceActive(), which Home calls from handleSelectionChange and
\* handleMessageSent
ForceActive ==
  /\ idleDetection.effect = "none"
  /\ Idling(resetTimer(idleDetection, now, "forceActive"))

ForceIdle ==
  /\ idleDetection.effect = "none"
  /\ Idling(forceIdle(idleDetection))

\* the idle timer is due
IdleTimeout ==
  /\ idleDetection.effect = "none"
  /\ idleDetection.timeoutRef # 0
  /\ now >= idleDetection.timeoutRef
  /\ Idling(onTimeout(idleDetection))

IdleRender ==
  /\ idleDetection.effect = "none"
  /\ Idling(idleRender(idleDetection))

IdleNext ==
  \/ IdleEffect \/ Activity \/ ForceActive \/ ForceIdle \/ IdleTimeout
  \/ IdleRender \/ Tick

IdleSpec == Init /\ [][IdleNext]_vars

----------------------------------------------------------------------------
(* Properties *)

cells == spreadsheetState.cells
rows == spreadsheetState.rows
columns == spreadsheetState.columns
headers == spreadsheetState.headers

\* at least one call has been made: request and result are those of the
\* latest call
Called == Len(userEvents) > 0
\* this step is a call of processUserMessage
CallStep == Len(userEvents') = Len(userEvents) + 1
\* the calls that threw so far (the action log starts with one mock event)
FailedCalls == Len(userEvents) - (Len(actionEvents) - 1)

CellsAt(row, col) == {i \in 1..Len(cells) : cells[i].row = row /\ cells[i].col = col}
\* the value of a command: its words after the address, one space apart
ValueText(cmd) == join(cmd.rest, <<" ">>)
\* a command '<letters><n> <value>' with n >= 1 and a column within A..ZZ
ValidCellCommand(cmd) ==
  /\ cmd.kind = "cell"
  /\ cmd.n >= 1
  /\ cmd.rest # <<>>
  /\ parseColumn(cmd.letters) >= 0
\* the latest call returned, the grid holds the request's value at the
\* request's coordinate and the action event names that coordinate
SingleCellApplied ==
  /\ ~result.threw
  /\ CellsAt(request.n - 1, parseColumn(request.letters)) # {}
  /\ \A i \in CellsAt(request.n - 1, parseColumn(request.letters)) :
        cells[i].value = ValueText(request)
  /\ result.value.actionEvent.action = "UPDATE_CELL"
  /\ result.value.actionEvent.target =
        [row |-> request.n - 1, col |-> parseColumn(request.letters)]

C2_HeadersMatchColumns == Len(headers) = columns

\* a range command grew the grid beyond column Z after a header rename
C2_Witness ==
  /\ Called
  /\ request.kind = "range"
  /\ ~result.threw
  /\ columns > INITIAL_COLUMNS
  /\ \E i \in 1..Len(actionEvents) : actionEvents[i].action = "HEADER_RENAME"

\* C3: rows and columns never decrease from one state to the next, and
\* rows never exceeds MAX_ROWS.
C3_DimensionsOnlyGrow ==
  /\ rows <= MAX_ROWS
  /\ [][/\ spreadsheetState'.rows >= rows
        /\ spreadsheetState'.columns >= columns
        /\ spreadsheetState'.rows <= MAX_ROWS]_vars

\* a command addressed a row beyond the cap in a grid whose columns had grown
C3_Witness ==
  /\ Called
  /\ request.kind = "cell"
  /\ request.n > MAX_ROWS
  /\ ~result.threw
  /\ rows = MAX_ROWS
  /\ columns > INITIAL_COLUMNS

UniqueCoordinates ==
  \A i, j \in 1..Len(cells) :
    (cells[i].row = cells[j].row /\ cells[i].col = cells[j].col) => i = j
\* the cells present before the step keep their place and their coordinate
CellsStayInPlace ==
  /\ Len(spreadsheetState'.cells) >= Len(cells)
  /\ \A i \in 1..Len(cells) :
       /\ spreadsheetState'.cells[i].row = cells[i].row
       /\ spreadsheetState'.cells[i].col = cells[i].col

\* C4: the grid holds at most one cell per (row, col); a write to a
\* coordinate that has a cell replaces that cell in place, for single and
\* range commands, and no command removes a coordinate.
C4_OneCellPerCoordinate ==
  /\ [](UniqueCoordinates)
  /\ [][CellsStayInPlace]_vars

\* a single command and then a range command wrote over existing cells:
\* two commands applied and the grid has as many cells as at the start
C4_Witness ==
  /\ Called
  /\ request.kind = "range"
  /\ ~result.threw
  /\ result.value.actionEvent.data.cellsUpdated >= 2
  /\ Len(actionEvents) = 3
  /\ actionEvents[2].action = "UPDATE_CELL"
  /\ "cellsUpdated" \notin DOMAIN actionEvents[2].data
  /\ Len(cells) = Len(MockCells)

\* C5: a call that fails leaves the grid, the action log and the state log
\* as they were, and a valid command after a failed one applies normally.
C5_FailureChangesNothing ==
  /\ [][(CallStep /\ result'.threw) =>
          /\ spreadsheetState' = spreadsheetState
          /\ actionEvents' = actionEvents
          /\ stateEvents' = stateEvents]_vars
  /\ []((Called /\ FailedCalls > 0 /\ ValidCellCommand(request)) => SingleCellApplied)

\* a valid single-cell command was applied after a call that had failed
C5_Witness ==
  /\ Called
  /\ FailedCalls > 0
  /\ ValidCellCommand(request)
  /\ ~result.threw
  /\ Len(actionEvents) = 2

\* C6: the error a rejected command surfaces to the caller has status 400
\* and carries the validation message.
C6_RejectionIsClientError ==
  (Called /\ result.threw) =>
    /\ result.error.statusCode = 400
    /\ result.error.message = result.logged.message

\* C7: a single-cell command whose column lies beyond ZZ fails and changes
\* neither the cells nor the column count nor the headers.
C7_ColumnBeyondZZRejected ==
  [][(CallStep /\ request'.kind = "cell" /\ request'.rest # <<>>
        /\ parseColumn(request'.letters) = -1) =>
       /\ result'.threw
       /\ spreadsheetState'.cells = cells
       /\ spreadsheetState'.columns = columns
       /\ spreadsheetState'.headers = headers]_vars

\* C8: a single-cell command whose row number is below 1 fails and writes
\* no cell.
C8_RowBelowOneRejected ==
  [][(CallStep /\ request'.kind = "cell" /\ request'.rest # <<>> /\ request'.n < 1) =>
       /\ result'.threw
       /\ spreadsheetState'.cells = cells]_vars

\* 'A0 x' was rejected for its row number
C8_Witness ==
  /\ Called
  /\ request = CellCmd(<<"A">>, 0, <<Wx>>)
  /\ result.threw
  /\ result.logged.message = "Row number must be at least 1"

\* a text of two words or more that starts with neither an address nor
\* the keyword of the header-rename command
FreeText(cmd) ==
  /\ cmd.kind = "text"
  /\ Len(cmd.rest) >= 2
  /\ toUpperCase(cmd.rest[1]) # KwChange

\* C9: a text of two or more words whose first word is no cell or range
\* address is not an error: the call returns an action event and the
\* parsed command's value is the whole text.
C9_FreeTextAccepted ==
  (Called /\ FreeText(request)) =>
    /\ ~result.threw
    /\ result.value.parsedCommand.value = join(request.rest, request.gap)

\* C10: for '<cell> = <v>' the parsed value and the stored value are <v>,
\* without the '=' word.
C10_EqualsSignDropped ==
  (Called /\ ValidCellCommand(request) /\ Len(request.rest) >= 2
     /\ request.rest[1] = WEquals) =>
    /\ ~result.threw
    /\ result.value.parsedCommand.value = join(Tail(request.rest), <<" ">>)
    /\ \A i \in CellsAt(request.n - 1, parseColumn(request.letters)) :
          cells[i].value = join(Tail(request.rest), <<" ">>)

\* the column index of a command's start cell and of its end cell (the
\* start column when the end token has no letters)
StartCol(cmd) == parseColumn(cmd.letters)
EndCol(cmd) == IF cmd.endLetters = <<>> THEN StartCol(cmd) ELSE parseColumn(cmd.endLetters)

\* going from the grid `before` to the grid `after`, every coordinate of
\* rowSet x colSet holds `value`, and every cell outside it is as it was
SetExactly(before, after, rowSet, colSet, value) ==
  /\ \A r \in rowSet, c \in colSet :
        \E i \in 1..Len(after) :
          after[i].row = r /\ after[i].col = c /\ after[i].value = value
  /\ \A i \in 1..Len(after) :
        \/ after[i].row \in rowSet /\ after[i].col \in colSet
        \/ i <= Len(before) /\ after[i] = before[i]
  /\ \A i \in 1..Len(before) :
        (before[i].row \notin rowSet \/ before[i].col \notin colSet) =>
          (i <= Len(after) /\ after[i] = before[i])

\* a range command '<L><a>-<b> <value>' with 1 <= a <= b <= 100
ColumnRangeCommand(cmd) ==
  /\ cmd.kind = "range"
  /\ cmd.endLetters = <<>>
  /\ cmd.rest # <<>>
  /\ 1 <= cmd.n /\ cmd.n <= cmd.endN /\ cmd.endN <= MAX_ROWS
  /\ StartCol(cmd) >= 0

\* C11: a range command whose end token has no letters, with
\* 1 <= a <= b <= 100, succeeds; exactly the cells of rows a-1 .. b-1 in
\* the start column are set to the value, no other cell changes, and the
\* action event reports cellsUpdated = b - a + 1.
C11_EndColumnDefaultsToStart ==
  [][(CallStep /\ ColumnRangeCommand(request')) =>
       /\ ~result'.threw
       /\ SetExactly(cells, spreadsheetState'.cells,
                     (request'.n - 1)..(request'.endN - 1), {StartCol(request')},
                     ValueText(request'))
       /\ result'.value.actionEvent.data.cellsUpdated = request'.endN - request'.n + 1
       /\ result'.value.parsedCommand.endCol = result'.value.parsedCommand.startCol]_vars

\* 'A91-100 X' was applied: ten cells, rows 90 .. 99 of column A
C11_Witness ==
  /\ Called
  /\ request = RangeCmd(<<"A">>, 91, <<>>, 100, <<WX>>)
  /\ ~result.threw
  /\ result.value.actionEvent.data.cellsUpdated = 10
  /\ \A r \in 90..99 : \E i \in CellsAt(r, 0) : cells[i].value = WX
  /\ Len(cells) = Len(MockCells) + 10

\* C12: a range command that succeeds sets every cell of the inclusive
\* rectangle [startRow..endRow] x [startCol..endCol] to the value and
\* appends exactly one action event and exactly one state event.
C12_RangeWritesRectangleOnce ==
  [][(CallStep /\ request'.kind = "range" /\ ~result'.threw) =>
       /\ SetExactly(cells, spreadsheetState'.cells,
                     (request'.n - 1)..(request'.endN - 1),
                     StartCol(request')..EndCol(request'),
                     ValueText(request'))
       /\ actionEvents' = Append(actionEvents, result'.value.actionEvent)
       /\ stateEvents' = Append(stateEvents, result'.value.stateEvent)]_vars

\* 'A1-B2 x' was applied: four cells written, one event in each log
C12_Witness ==
  /\ Called
  /\ request = RangeCmd(<<"A">>, 1, <<"B">>, 2, <<Wx>>)
  /\ ~result.threw
  /\ result.value.actionEvent.data.cellsUpdated = 4
  /\ \A r \in 0..1, c \in 0..1 : \E i \in CellsAt(r, c) : cells[i].value = Wx
  /\ Len(userEvents) = 1
  /\ Len(actionEvents) = 2
  /\ Len(stateEvents) = 2

\* 'change column <L> to <name>' or 'change column <L> header name to
\* <name>', in any letter case
RenameCommand(cmd) ==
  /\ cmd.kind = "text"
  /\ Len(cmd.rest) >= 5
  /\ toUpperCase(cmd.rest[1]) = KwChange
  /\ toUpperCase(cmd.rest[2]) = KwColumn
  /\ \/ toUpperCase(cmd.rest[4]) = KwTo
     \/ /\ Len(cmd.rest) >= 7
        /\ toUpperCase(cmd.rest[4]) = KwHeader
        /\ toUpperCase(cmd.rest[5]) = KwName
        /\ toUpperCase(cmd.rest[6]) = KwTo
\* the column it names and the name it gives: the text after 'to',
\* without the whitespace around it
RenameCol(cmd) == parseColumn(cmd.rest[3])
RenameName(cmd) ==
  join(SubSeq(cmd.rest, IF toUpperCase(cmd.rest[4]) = KwTo THEN 5 ELSE 7, Len(cmd.rest)),
       cmd.gap)

\* C13: a header-rename command that succeeds sets headers[index(L)] to
\* the trimmed name and leaves every cell, rows, columns and every other
\* header as they were.
C13_RenameChangesOneHeader ==
  [][(CallStep /\ RenameCommand(request') /\ ~result'.threw) =>
       /\ spreadsheetState'.headers =
            [headers EXCEPT ![RenameCol(request') + 1] = RenameName(request')]
       /\ spreadsheetState'.cells = cells
       /\ spreadsheetState'.rows = rows
       /\ spreadsheetState'.columns = columns]_vars

\* 'change column B header name to Age' was applied after column A had
\* been renamed: B is Age, A keeps its new name, C its letter
C13_Witness ==
  /\ Called
  /\ request = TextCmd(<<Wchange, Wcolumn, <<"B">>, Wheader, Wname, Wto, WAge>>)
  /\ ~result.threw
  /\ result.value.actionEvent.action = "HEADER_RENAME"
  /\ headers[2] = WAge
  /\ headers[1] = WName
  /\ headers[3] = <<"C">>
  /\ cells = MockCells

\* C14: applying the same single-cell command twice in a row leaves the
\* grid exactly as it was after the first application: the same value at
\* the target cell, the same rows and columns, the same number of cells.
C14_SingleCommandIdempotent ==
  [][(CallStep /\ Called /\ request' = request /\ request.kind = "cell"
        /\ ~result.threw) =>
       /\ ~result'.threw
       /\ spreadsheetState' = spreadsheetState]_vars

\* 'AA1 x' was applied twice: one cell added, one column added
C14_Witness ==
  /\ Len(userEvents) = 2
  /\ userEvents[1] = userEvents[2]
  /\ request = CellCmd(<<"A","A">>, 1, <<Wx>>)
  /\ Len(actionEvents) = 3
  /\ columns = INITIAL_COLUMNS + 1
  /\ Len(cells) = Len(MockCells) + 1
  /\ \E i \in CellsAt(0, 26) : cells[i].value = Wx

\* the command whose text the i-th call received (no two commands of the
\* model have the same text)
CommandOf(userEvent) == CHOOSE cmd \in Commands : Text(cmd) = userEvent.message
Calls == [i \in 1..Len(userEvents) |-> CommandOf(userEvents[i])]
TargetOf(cmd) == [row |-> cmd.n - 1, col |-> parseColumn(cmd.letters)]
\* the largest element of a non-empty set of integers
Largest(S) == CHOOSE x \in S : \A y \in S : y <= x

\* every call made so far carried a valid single-cell command, and no two
\* of them the same coordinate
DisjointSingleCalls ==
  /\ Len(userEvents) >= 2
  /\ \A i \in 1..Len(userEvents) : ValidCellCommand(Calls[i])
  /\ \A i, j \in 1..Len(userEvents) :
        TargetOf(Calls[i]) = TargetOf(Calls[j]) => i = j

\* C15: N calls for valid single-cell commands on pairwise distinct
\* coordinates, in whatever order the event loop runs them: all of them
\* succeed, each target cell holds its own command's value, and rows and
\* columns are the largest any one command needs (rows capped at
\* MAX_ROWS), not a sum.
C15_DisjointCallsAllApply ==
  DisjointSingleCalls =>
    /\ FailedCalls = 0
    /\ \A k \in 1..Len(userEvents) :
          /\ CellsAt(TargetOf(Calls[k]).row, TargetOf(Calls[k]).col) # {}
          /\ \A i \in CellsAt(TargetOf(Calls[k]).row, TargetOf(Calls[k]).col) :
                cells[i].value = ValueText(Calls[k])
    /\ columns = Largest({INITIAL_COLUMNS}
                         \cup {TargetOf(Calls[k]).col + 1 : k \in 1..Len(userEvents)})
    /\ rows = Min(MAX_ROWS,
                  Largest({INITIAL_ROWS} \cup {Calls[k].n : k \in 1..Len(userEvents)}))

\* 'AA1 x' and then 'C3 x' were applied: the grid keeps the 27 columns
\* the first one needed
C15_Witness ==
  /\ DisjointSingleCalls
  /\ Calls[1] = CellCmd(<<"A","A">>, 1, <<Wx>>)
  /\ request = CellCmd(<<"C">>, 3, <<Wx>>)
  /\ ~result.threw
  /\ columns = INITIAL_COLUMNS + 1
  /\ \E i \in CellsAt(0, 26) : cells[i].value = Wx
  /\ \E i \in CellsAt(2, 2) : cells[i].value = Wx

\* C16: columnIndexToLetter and letterToColumnIndex are inverses of each
\* other on the accepted range: an index 0..701 encoded and decoded is the
\* same index, a letter string A..ZZ decoded and encoded is the same
\* string (and the encoding of an index is a string of upper-case letters).
C16_CodecRoundTrip ==
  /\ Len(result.value) = 2 => result.value[2] = request.input
  /\ (Len(result.value) >= 1 /\ request.kind = "index") =>
        /\ result.value[1] # <<>>
        /\ \A i \in 1..Len(result.value[1]) : IsUpperChar(result.value[1][i])
  /\ (Len(result.value) >= 1 /\ request.kind = "letter") =>
        result.value[1] >= 0

\* ZZ was decoded to 701 and 701 encoded to ZZ
C16_Witness ==
  /\ request = [kind |-> "letter", input |-> <<"Z","Z">>]
  /\ result.value = <<701, <<"Z","Z">>>>

\* this step is a GET handler answering (a call of processUserMessage
\* always adds a user event)
ReadStep == response' # response /\ userEvents' = userEvents

\* `listed` is the first Len(listed) events of `log`, latest first
LatestFirst(listed, log) ==
  /\ Len(listed) <= Len(log)
  /\ \A i \in 1..Len(listed) : listed[i] = log[Len(listed) + 1 - i]

\* C17: getActionEvents and getStateEvents return their log most recent
\* first: the event of a later command stands before the event of an
\* earlier one, and the list holds every event appended up to the call.
C17_LogsMostRecentFirst ==
  /\ [](response.kind = "actions" => LatestFirst(response.actions, actionEvents))
  /\ [](response.kind = "state" => LatestFirst(response.stateEvents, stateEvents))
  /\ [][(ReadStep /\ response'.kind = "actions") =>
          /\ Len(response'.actions) = Len(actionEvents)
          /\ response'.count = Len(actionEvents)]_vars
  /\ [][(ReadStep /\ response'.kind = "state") =>
          /\ Len(response'.stateEvents) = Len(stateEvents)
          /\ response'.count = Len(stateEvents)]_vars

\* GET /action after 'C3 x' and then 'change column A to Name': the rename
\* comes first, the mock event last
C17_Witness ==
  /\ response.kind = "actions"
  /\ Len(userEvents) = 2
  /\ response.count = 3
  /\ response.actions[1].action = "HEADER_RENAME"
  /\ response.actions[2] = ActionEvent("UPDATE_CELL", 2, 2, [value |-> Wx])
  /\ response.actions[3] = ActionEvent("UPDATE_CELL", 0, 0, [value |-> WSampleData])

\* C18: the object getSpreadsheetState returned is a copy: a command
\* applied after it was taken changes neither its cells nor its headers.
C18_SnapshotIsACopy ==
  [][(CallStep /\ response.kind = "state") =>
       /\ response'.state.cells = response.state.cells
       /\ response'.state.headers = response.state.headers]_vars

\* the grid a state object shows
ViewOf(state) ==
  [cells |-> state.cells, rows |-> state.rows, columns |-> state.columns,
   headers |-> state.headers]

\* C19: the state and the stateEvents of one GET /state response are those
\* of the store at one and the same moment, and the store's grid and its
\* state log change together, within one call: the response never pairs a
\* grid from before a command with events from after it, nor shows a
\* range command half written.
C19_StateResponseConsistent ==
  /\ [][(ReadStep /\ response'.kind = "state") =>
          /\ ViewOf(response'.state) = spreadsheetState
          /\ response'.stateEvents = [i \in 1..Len(stateEvents) |->
                                        stateEvents[Len(stateEvents) + 1 - i]]
          /\ (Called /\ request.kind = "range" /\ ~result.threw) =>
                \A r \in (request.n - 1)..(request.endN - 1),
                   c \in StartCol(request)..EndCol(request) :
                  \E i \in 1..Len(response'.state.cells) :
                    response'.state.cells[i] = SpreadsheetCell(r, c, ValueText(request))]_vars
  /\ [][CallStep =>
          /\ spreadsheetState' # spreadsheetState => Len(stateEvents') = Len(stateEvents) + 1
          /\ stateEvents' # stateEvents =>
                /\ ~result'.threw
                /\ stateEvents' = Append(stateEvents, result'.value.stateEvent)]_vars

\* GET /state after 'A1-B2 x': the four cells and the range's state event
C19_Witness ==
  /\ response.kind = "state"
  /\ request = RangeCmd(<<"A">>, 1, <<"B">>, 2, <<Wx>>)
  /\ ~result.threw
  /\ response.count = 2
  /\ response.stateEvents[1] = result.value.stateEvent
  /\ ViewOf(response.state) = spreadsheetState
  /\ \A r \in 0..1, c \in 0..1 :
        \E i \in 1..Len(response.state.cells) :
          response.state.cells[i] = SpreadsheetCell(r, c, Wx)

\* the same call on the same store with the broadcaster initialised
WithBroadcaster(store, cmd) == processUserMessage(store, TRUE, Text(cmd))

\* C20: with the broadcaster not initialised a call does to the store and
\* returns exactly what it does and returns with the broadcaster
\* available, and emits nothing; a valid single-cell command succeeds and
\* appends one action event and one state event.
C20_StoreIndependentOfBroadcaster ==
  [][(CallStep /\ ~io) =>
       /\ broadcast' = <<>>
       /\ [userEvents |-> userEvents', actionEvents |-> actionEvents',
           stateEvents |-> stateEvents', spreadsheetState |-> spreadsheetState']
            = WithBroadcaster(Store, request').store
       /\ result' = WithBroadcaster(Store, request').outcome
       /\ ValidCellCommand(request') =>
             /\ ~result'.threw
             /\ actionEvents' = Append(actionEvents, result'.value.actionEvent)
             /\ stateEvents' = Append(stateEvents, result'.value.stateEvent)]_vars

\* 'A1 Hello World' was applied while io was null: nothing emitted, the
\* cell written, both logs one event longer
C20_Witness ==
  /\ ~io
  /\ Len(userEvents) = 1
  /\ request = CellCmd(<<"A">>, 1, <<WHello, WWorld>>)
  /\ ~result.threw
  /\ broadcast = <<>>
  /\ SingleCellApplied
  /\ actionEvents[2] = result.value.actionEvent
  /\ stateEvents[2] = result.value.stateEvent

\* C22: every stored cell has row >= 0 and col >= 0; a range command
\* whose start row is 0 writes no cell at row -1.
C22_CellsNonNegative ==
  \A i \in 1..Len(cells) : cells[i].row >= 0 /\ cells[i].col >= 0

\* C23: a call that widens the grid leaves every header that existed
\* before as it was, renamed ones included, and gives the new columns
\* their letters.
C23_RenamedHeaderSurvivesExpansion ==
  [][(CallStep /\ spreadsheetState'.columns > columns) =>
       /\ \A i \in 1..columns : spreadsheetState'.headers[i] = headers[i]
       /\ \A i \in (columns + 1)..spreadsheetState'.columns :
             spreadsheetState'.headers[i] = columnIndexToLetter(i - 1)]_vars

\* C24: a header-rename command succeeds exactly when the index of its
\* column is below the column count the store has when the call is made;
\* a rename that fails leaves the grid, headers included, as it was.
C24_RenameWithinCurrentColumns ==
  [][(CallStep /\ RenameCommand(request')) =>
       /\ (~result'.threw) = (RenameCol(request') < columns)
       /\ result'.threw => spreadsheetState' = spreadsheetState]_vars

\* 'change column AA to X' was applied after an earlier command had
\* widened the grid beyond column AA: header 27 is X, nothing threw
C24_Witness ==
  /\ Len(userEvents) = 2
  /\ request = TextCmd(<<Wchange, Wcolumn, <<"A","A">>, Wto, WX>>)
  /\ ~result.threw
  /\ columns > INITIAL_COLUMNS
  /\ RenameCol(request) = INITIAL_COLUMNS
  /\ headers[INITIAL_COLUMNS + 1] = WX
  /\ result.value.actionEvent.action = "HEADER_RENAME"

\* C25: a free text reaches the general branch: the call appends a
\* GENERAL_MESSAGE action event and a state event carrying the text, both
\* with target row = col = -1, and no cell changes.
C25_FreeTextIsGeneralMessage ==
  (Called /\ FreeText(request)) =>
    /\ ~result.threw
    /\ actionEvents[Len(actionEvents)] =
         ActionEvent("GENERAL_MESSAGE", -1, -1,
                     [message |-> join(request.rest, request.gap)])
    /\ stateEvents[Len(stateEvents)] =
         StateEvent("CELL_UPDATE", -1, -1, join(request.rest, request.gap))

\* a message that is missing or is no string, as the claim words it
MissingOrNotString(message) ==
  \/ message.type = "undefined"
  \/ message.type # "string"

\* C21: a POST /message whose message is missing or is no string is
\* answered 400 with success = false, and the store (grid and the three
\* logs) is as it was: processUserMessage was not called.
C21_BadMessageRejectedUntouched ==
  [][(io' = io /\ MissingOrNotString(request'.message)) =>
       /\ ~result'.forwarded
       /\ result'.status = 400
       /\ result'.body.success = FALSE
       /\ UNCHANGED <<userEvents, actionEvents, stateEvents, spreadsheetState,
                      broadcast>>]_vars

\* the number 123 was sent after a command had been applied: the reply is
\* 400 and the store is as that command left it
C21_Witness ==
  /\ request = [message |-> Num(123)]
  /\ ~result.forwarded
  /\ result.status = 400
  /\ ~result.body.success
  /\ Len(userEvents) = 1
  /\ userEvents[1].message = Text(CellCmd(<<"A">>, 1, <<WHello, WWorld>>))
  /\ Len(actionEvents) = 2
  /\ Len(stateEvents) = 2
  /\ \A i \in CellsAt(0, 0) : cells[i].value = join(<<WHello, WWorld>>, <<" ">>)

\* C26: an update message received while the isIdle of the instance whose
\* listeners receive it is true is not passed on to the handler, whenever
\* the socket was made.
C26_IdleGateFollowsCurrentIdle ==
  (received.event \in UpdateEvents /\ received.idle) => ~received.handled

\* the sockets that are open or connecting
Alive == {s \in 1..Len(sockets) : sockets[s].status \in {"connecting", "open"}}

\* C27: at most one socket made by useWebSocket is open or connecting at
\* any time, and a step creates a socket only if at least 2000 ms have
\* passed since the previous connection attempt.
C27_OneSocketAndThrottle ==
  /\ [](Cardinality(Alive) <= 1)
  /\ [][Len(sockets') > Len(sockets) =>
          /\ now - lastConnectionAttempt >= CONNECT_THROTTLE
          /\ Len(sockets') = Len(sockets) + 1
          /\ lastConnectionAttempt' = now]_vars

\* a second socket, made two seconds or more after the first one was made
\* and after that one was closed, is open; another instance is not connected
C27_Witness ==
  /\ Len(sockets) = 2
  /\ sockets[1] = Closed
  /\ sockets[2].status = "open"
  /\ hooks[sockets[2].owner].isConnected
  /\ \E i \in Hooks : i # sockets[2].owner /\ ~hooks[i].isConnected
  /\ globalSocket = 2
  /\ Alive = {2}
  /\ lastConnectionAttempt >= StartTime + CONNECT_THROTTLE

\* a step in which loadSpreadsheetState is called
LoadCall == call' # call
\* every two getState requests are REQUEST_THROTTLE ms or more apart
RequestsApart ==
  \A i, j \in 1..Len(requests) :
    i < j => requests[j].at - requests[i].at >= REQUEST_THROTTLE

C29_ExplicitCallIssuesRequest ==
  [][(LoadCall /\ call'.source = "explicit"
        /\ requests # <<>> /\ requests[1].status # "pending") =>
       Len(requests') = Len(requests) + 1]_vars

\* C30: no retry timer fires after the component has unmounted.
C30_NoRetryAfterUnmount ==
  [][(\E k \in 1..Len(timers) :
        timers[k].status = "pending" /\ timers'[k].status = "fired") =>
       mounted]_vars

\* C33: every stored cell lies inside the declared dimensions of the
\* grid: row < rows and col < columns.
C33_CellsInsideGrid ==
  \A i \in 1..Len(cells) : cells[i].row < rows /\ cells[i].col < columns

\* C34: the row in the target of the action event and in the cellData of
\* the state event of a range command is startRow - 1, the 0-based row of
\* the first cell of the range.
C34_RangeEventRowIsZeroBased ==
  (Called /\ request.kind = "range" /\ ~result.threw) =>
    /\ result.value.actionEvent.target.row = request.n - 1
    /\ result.value.stateEvent.cellData.row = request.n - 1

\* the cells of the grid that lie in the rectangle a range command names
\* and hold its value
RangeCellsHolding(cmd) ==
  {i \in 1..Len(cells) :
     /\ cells[i].row \in (cmd.n - 1)..(cmd.endN - 1)
     /\ cells[i].col \in StartCol(cmd)..EndCol(cmd)
     /\ cells[i].value = ValueText(cmd)}

\* C35: a range command that is applied and logs an UPDATE_CELL action
\* event has written at least one cell.
C35_LoggedRangeWroteACell ==
  (Called /\ request.kind = "range" /\ ~result.threw
     /\ result.value.actionEvent.action = "UPDATE_CELL") =>
    /\ RangeCellsHolding(request) # {}
    /\ result.value.actionEvent.data.cellsUpdated >= 1

\* a step in which processUserMessage is called
ProcessStep ==
  /\ io' = io
  /\ response'.kind = response.kind
  /\ userEvents' # userEvents \/ request' # request \/ result' # result
\* what getHealthStatus reports in the state a step leaves and in the one
\* it leaves behind
CountsBefore == getHealthStatus(Store).dataCounts
CountsAfter ==
  getHealthStatus([userEvents |-> userEvents', actionEvents |-> actionEvents',
                   stateEvents |-> stateEvents',
                   spreadsheetState |-> spreadsheetState']).dataCounts

\* C36: every call of processUserMessage appends exactly one user event,
\* that of its message; when the command is rejected the count of user
\* events getHealthStatus reports is one higher and its counts of action
\* events and state events are unchanged.
C36_EveryCallLogsOneUserEvent ==
  [][ProcessStep =>
       /\ userEvents' = Append(userEvents, UserEvent(Text(request')))
       /\ CountsAfter.userEvents = CountsBefore.userEvents + 1
       /\ result'.threw =>
            /\ CountsAfter.actionEvents = CountsBefore.actionEvents
            /\ CountsAfter.stateEvents = CountsBefore.stateEvents]_vars

\* 'A0 x' was rejected twice: two user events, the two other logs as
\* constructed
C36_Witness ==
  /\ request = CellCmd(<<"A">>, 0, <<Wx>>)
  /\ result.threw
  /\ getHealthStatus(Store).dataCounts =
       [userEvents |-> 2, actionEvents |-> 1, stateEvents |-> 1,
        cells |-> Len(MockCells)]
  /\ userEvents[1] = userEvents[2]

\* the InputBox has handed a text to onMessageSent
HasSent == sent.status # "none"

\* '<col>1-100 <value>'
ColumnFill(col, value) == col \o <<"1", "-", "1", "0", "0", " ">> \o value

\* C31: with one or more selected columns and no selected cell, the text
\* handed to onMessageSent is '<col>1-100 <value>' for each selected
\* column, joined by single spaces.
C31_ColumnFillText ==
  (HasSent /\ sent.selectedCells = <<>> /\ Len(sent.selectedColumns) >= 1) =>
    sent.text = join([i \in 1..Len(sent.selectedColumns) |->
                        ColumnFill(sent.selectedColumns[i], sent.value)],
                     <<" ">>)

\* the parent passes the box the selection it passed before, array by array
SameSelection ==
  /\ inputBox'.props.selectedCells.items = inputBox.props.selectedCells.items
  /\ inputBox'.props.selectedColumns.items = inputBox.props.selectedColumns.items
  /\ inputBox'.props.selectedRows.items = inputBox.props.selectedRows.items

\* C32: what is typed is what the input holds, with the Send button
\* enabled when it is not blank, and the input keeps its text through
\* every step that neither types, nor resumes a submission, nor changes
\* the selection.
C32_TypedTextStays ==
  [][/\ lastEvent'.kind = "change" =>
          /\ inputBox'.message = lastEvent'.value
          /\ trim(lastEvent'.value) # <<>> => ~sendDisabled(inputBox')
     /\ (lastEvent'.kind \in {"render", "submit", "select"} /\ SameSelection) =>
          inputBox'.message = inputBox.message]_vars

\* the 0-based row and column of a cell name such as 'C3'
NameLetters(name) == SubSeq(name, 1, runLength(name, 1, UpperChars))
NameRow(name) ==
  parseInt(SubSeq(name, Len(NameLetters(name)) + 1, Len(name))) - 1
NameCol(name) == letterToColumnIndex(NameLetters(name))

\* the grid has a cell at (row, col), and it holds value
Holds(row, col, value) ==
  /\ CellsAt(row, col) # {}
  /\ \A i \in CellsAt(row, col) : cells[i].value = value

\* C40: once the store has applied the text the InputBox sent for a
\* selection of one or more cells, columns or rows, every selected cell,
\* or every cell of rows 1-100 of every selected column, or every cell of
\* columns A-Z of every selected row, holds exactly the value submitted.
C40_SelectionFilled ==
  sent.status = "applied" =>
    /\ \A i \in 1..Len(sent.selectedCells) :
         Holds(NameRow(sent.selectedCells[i]), NameCol(sent.selectedCells[i]),
               sent.value)
    /\ sent.selectedCells = <<>> =>
         \A i \in 1..Len(sent.selectedColumns), row \in 0..(MAX_ROWS - 1) :
           Holds(row, letterToColumnIndex(sent.selectedColumns[i]), sent.value)
    /\ (sent.selectedCells = <<>> /\ sent.selectedColumns = <<>>) =>
         \A i \in 1..Len(sent.selectedRows), col \in 0..(INITIAL_COLUMNS - 1) :
           Holds(sent.selectedRows[i] - 1, col, sent.value)

\* the latest call of processUserMessage is that of an inline edit
JustEdited == cellUpdate.call > 0 /\ cellUpdate.call = Len(userEvents)

\* C39: the command Home sends for an inline edit of (row, col) with a
\* non-empty value is applied by the store to the 0-based cell (row, col),
\* whatever the column the grid displays.
C39_EditReachesItsCell ==
  (JustEdited /\ cellUpdate.value # <<>>) =>
    /\ ~result.threw
    /\ result.value.actionEvent.target =
         [row |-> cellUpdate.row, col |-> cellUpdate.col]
    /\ Holds(cellUpdate.row, cellUpdate.col, cellUpdate.value)

\* C37: while isIdle is true, a step that is neither an activity event
\* nor a call of forceActive leaves isIdle true, does not call onActive and
\* leaves the idle timer as it was.
C37_IdleUntilActivity ==
  [][(idleDetection.isIdle /\ idleDetection'.event \notin {"activity", "forceActive"}) =>
       /\ idleDetection'.isIdle
       /\ idleDetection'.called # "onActive"
       /\ idleDetection'.timeoutRef = idleDetection.timeoutRef]_vars

\* the page was told of a command that none of its requests has seen
RefreshDue == refreshed.fetched < refreshed.notified
\* the model will explore no further request, or time has reached its
\* horizon with a timer still to fire
Horizon == StartTime + MaxTicks * TickMs
RefreshCutOff ==
  \/ Len(requests) >= MaxRequests
  \/ /\ now >= Horizon
     /\ \/ updateTimeoutRef # 0
        \/ \E k \in 1..Len(timers) : timers[k].status = "pending"

\* C38: once a handler of Home has received the update of an applied
\* command, the page eventually issues a getState request that is sent
\* after the command was applied.
C38_UpdateLeadsToRefresh == RefreshDue ~> (~RefreshDue \/ RefreshCutOff)

====
